---- MODULE Spec2Model ----
(***************************************************************************)
(* A model of ossapi's api-v2 client (src/ossapi/ossapiv2.py): the         *)
(* `request` decorator that guards and normalises every endpoint call, the *)
(* `_request` transport / reauthentication cycle, and the annotation-      *)
(* driven deserialisation engine (`_instantiate_type`, `_instantiate`,     *)
(* `_resolve_annotations`).                                                *)
(***************************************************************************)
EXTENDS Integers, Sequences, FiniteSets, TLC

VARIABLES
    grant,                \* self.grant
    scopes,               \* self.scopes
    strict,               \* self.strict
    access_token_passed,  \* self.access_token_passed
    session,              \* self.session
    token_file,           \* contents of self.token_file
    cache,                \* self._type_hints_cache (its keys)
    pc,                   \* position inside the running top-level call
    call,                 \* the endpoint call: endpoint, args, kwargs as passed
    received,             \* the arguments the endpoint body was called with
    json_,                \* the response body in hand
    nreq,                 \* make_request() invocations of the current _request
    ngrant,               \* new grants obtained by the current _request
    outcome,              \* what the last finished call returned or raised
    type_,                \* deserialisation run: declared target type
    value,                \* deserialisation run: raw value
    result,               \* deserialisation run: returned value or raised error
    cursor,               \* the __dict__ of the Cursor object the caller holds
    sent                  \* the formatted params of the requests made with it

vars == <<grant, scopes, strict, access_token_passed, session, token_file,
          cache, pc, call, received, json_, nreq, ngrant, outcome, type_, value,
          result, cursor, sent>>

clientVars == <<grant, scopes, strict, access_token_passed, session,
                token_file, cache, pc, call, received, json_, nreq, ngrant,
                outcome>>

(***************************************************************************)
(* Declared types.  A typing annotation is a record [k, n, a]: its kind,   *)
(* its name and its arguments (get_args).                                  *)
(***************************************************************************)
int == [k |-> "prim", n |-> "int", a |-> <<>>]
float == [k |-> "prim", n |-> "float", a |-> <<>>]
str == [k |-> "prim", n |-> "str", a |-> <<>>]
bool == [k |-> "prim", n |-> "bool", a |-> <<>>]
NoneType == [k |-> "NoneType", n |-> "NoneType", a |-> <<>>]
dict == [k |-> "other", n |-> "dict", a |-> <<>>]

Union(args) == [k |-> "Union", n |-> "", a |-> args]
\* Optional[Union[X, Y]] is the flat Union[X, Y, None]
Optional(t) ==
    IF t.k = "Union" THEN Union(Append(t.a, NoneType)) ELSE Union(<<t, NoneType>>)
list(t) == [k |-> "list", n |-> "", a |-> <<t>>]
ModelT(name) == [k |-> "model", n |-> name, a |-> <<>>]
BaseModelT(name) == [k |-> "base", n |-> name, a |-> <<>>]
\* Field(name=..., type=...): an annotation carrying a wire-name override
Field(name, type) == [k |-> "Field", n |-> name, a |-> <<type>>]

get_origin(t) == IF t.k \in {"Union", "list"} THEN t.k ELSE "None"
get_args(t) == IF t.k \in {"Union", "list"} THEN t.a ELSE <<>>

SeqToSet(s) == {s[i] : i \in 1..Len(s)}

\* ossapi.utils classifiers
is_optional(t) ==
    IF t.k = "Field"
    THEN t.a[1].k = "Union" /\ NoneType \in SeqToSet(t.a[1].a)
    ELSE t.k = "Union" /\ NoneType \in SeqToSet(t.a)
is_primitive_type(t) == t.k = "prim"
is_base_model_type(t) == t.k = "base"
is_high_model_type(t) == t.k = "model"
is_model_type(t) == t.k \in {"model", "base"}

(***************************************************************************)
(* Runtime values.  A value is a record [t, v]: its runtime type and its   *)
(* payload.  JSON null and Python None are the same value.                 *)
(***************************************************************************)
None == [t |-> "NoneType", v |-> 0]
IntV(n) == [t |-> "int", v |-> n]
FloatV(n) == [t |-> "float", v |-> n]
StrV(s) == [t |-> "str", v |-> s]
BoolV(b) == [t |-> "bool", v |-> b]
ListV(s) == [t |-> "list", v |-> s]
DictV(f) == [t |-> "dict", v |-> f]
\* an instance of a model class; data is its _ossapi_data
Obj(cls, data) == [t |-> "obj", v |-> [cls |-> cls, data |-> data]]
\* an instance of a base model (an enum member, a Mod)
BaseObj(cls, x) == [t |-> "base", v |-> [cls |-> cls, value |-> x]]
\* the Ossapi instance stored as `_api`
Api == [t |-> "api", v |-> 0]

\* str(e) of an exception: what the message is about
Msg(kind, names, val, reasons) ==
    [kind |-> kind, names |-> names, val |-> val, reasons |-> reasons]
EmptyMsg == Msg("", <<>>, None, <<>>)
\* a raised exception, as the outcome of an operator
Raise(exc, msg) == [t |-> "raise", v |-> [exc |-> exc, msg |-> msg]]
IsRaise(x) == x.t = "raise"

\* isinstance(value, <primitive type>); bool is a subclass of int
isinstance(x, t) ==
    CASE t.n = "int" -> x.t \in {"int", "bool"}
      [] t.n = "float" -> x.t = "float"
      [] t.n = "str" -> x.t = "str"
      [] t.n = "bool" -> x.t = "bool"
      [] OTHER -> FALSE

\* ossapi.utils.convert_primitive_type: json ints for float attributes
convert_primitive_type(x, t) ==
    IF t.n = "float" /\ x.t = "int" THEN FloatV(x.v) ELSE x

\* bool(x) of a value
truthy(x) ==
    CASE x.t = "NoneType" -> FALSE
      [] x.t = "int" -> x.v # 0
      [] x.t = "float" -> x.v # 0
      [] x.t = "bool" -> x.v
      [] x.t = "str" -> x.v # ""
      [] x.t = "list" -> Len(x.v) > 0
      [] x.t = "dict" -> DOMAIN x.v # {}
      [] OTHER -> TRUE

(***************************************************************************)
(* Declared record types: the annotations get_type_hints returns for a     *)
(* model class.  NestedType and RecordType are the record types of the     *)
(* specification's scenario; Other accepts every mapping NestedType        *)
(* accepts; Covers declares an attribute through a Field with a wire name; *)
(* Stats declares required attributes only, of every primitive kind and a  *)
(* record.                                                                 *)
(* Outer declares a record that itself declares a record, and a list of    *)
(* records.                                                                *)
(* Holder declares union-typed and list-typed attributes.                  *)
(***************************************************************************)
ModelNames ==
    {"NestedType", "Other", "RecordType", "Covers", "Holder", "Stats", "Outer"}

get_type_hints(name) ==
    CASE name = "NestedType" -> [id |-> int]
      [] name = "Other" -> [id |-> int, tag |-> Optional(str)]
      [] name = "RecordType" ->
            [id |-> int, name |-> str, nested |-> Optional(ModelT("NestedType"))]
      [] name = "Covers" ->
            [cover |-> str, cover_2x |-> Field("cover@2x", Optional(str))]
      [] name = "Stats" ->
            [count |-> int, mode |-> str, ratio |-> float, ranked |-> bool,
             nested |-> ModelT("NestedType")]
      [] name = "Outer" ->
            [record |-> ModelT("RecordType"), others |-> list(ModelT("Other"))]
      [] name = "Holder" ->
            [u |-> Union(<<ModelT("NestedType"), ModelT("Other")>>),
             items |-> Optional(list(ModelT("NestedType"))),
             n |-> Union(<<int, str>>),
             ratios |-> Optional(list(float)),
             meta |-> Optional(dict)]

\* the scalars a base model's constructor accepts (GameMode("osu"))
BaseModelValues(name) ==
    CASE name = "GameMode" -> {"osu", "taiko"}
      [] name = "RoomSearchMode" -> {"active"}
      [] name = "UserLookupKey" -> {"id", "username"}
      [] name = "Mod" -> {"HR"}
      [] OTHER -> {}

\* type_(value) for a base model type: ValueError for an invalid scalar
construct_base(t, x) ==
    IF x.t = "base" /\ x.v.cls = t.n THEN x
    ELSE IF x.t = "str" /\ x.v \in BaseModelValues(t.n) THEN BaseObj(t.n, x.v)
    ELSE IF x.t = "int" /\ t.n = "Mod" THEN BaseObj(t.n, x.v)
    ELSE Raise("ValueError", Msg("is not a valid", <<t.n>>, x, <<>>))

\* type_(**kwargs_) for a model class: a declared attribute without a value
\* is a missing argument, an undeclared keyword an unexpected one; otherwise
\* the instance stores kwargs_
construct_model(t, kwargs_) ==
    IF \E a \in DOMAIN get_type_hints(t.n) : a \notin DOMAIN kwargs_
    THEN Raise("TypeError", Msg("missing argument", <<t.n>>, None, <<>>))
    ELSE IF \E a \in DOMAIN kwargs_ : a \notin DOMAIN get_type_hints(t.n) \cup {"_api"}
    THEN Raise("TypeError", Msg("unexpected keyword argument", <<t.n>>, None, <<>>))
    ELSE Obj(t.n, kwargs_)

\* the exception _instantiate ends with when kwargs is no mapping: renaming
\* the keys pops them (a str has no pop, a list pops by index), filling an
\* optional attribute assigns an item, and copying kwargs calls items()
not_a_mapping(t, x) ==
    LET type_hints == get_type_hints(t.n)
        fills == \E a \in DOMAIN type_hints : is_optional(type_hints[a])
        exc == CASE x.t = "str" ->
                      IF x.v = "" /\ fills THEN "TypeError" ELSE "AttributeError"
                 [] x.t = "list" ->
                      IF Len(x.v) > 0 \/ fills THEN "TypeError" ELSE "AttributeError"
                 [] OTHER -> "TypeError"
    IN  Raise(exc, Msg("not a mapping", <<x.t>>, x, <<>>))

RECURSIVE SetToSeq(_)
\* the elements of a set in the order a mapping yields them
SetToSeq(S) ==
    IF S = {} THEN <<>>
    ELSE LET e == CHOOSE e \in S : TRUE IN <<e>> \o SetToSeq(S \ {e})

\* the characters of the strings that occur in raw values
chars(w) ==
    CASE w = "" -> <<>>
      [] w = "foo" -> <<"f", "o", "o">>
      [] w = "osu" -> <<"o", "s", "u">>
      [] w = "msg" -> <<"m", "s", "g">>
      [] w = "c2" -> <<"c", "2">>
      [] OTHER -> <<w>>

\* whether iter(value) succeeds
iterable(x) == x.t \in {"list", "dict", "str"}

\* `for entry in value`: the entries visited, or the TypeError of a value
\* that is not iterable
iterate(x) ==
    CASE x.t = "list" -> x.v
      [] x.t = "dict" -> [i \in 1..Cardinality(DOMAIN x.v) |->
                            StrV(SetToSeq(DOMAIN x.v)[i])]
      [] x.t = "str" -> [i \in 1..Len(chars(x.v)) |-> StrV(chars(x.v)[i])]
      [] OTHER -> Raise("TypeError", Msg("not iterable", <<x.t>>, x, <<>>))

\* Ossapi._fields: attribute name -> Field, for the Field annotations
_fields(type_hints) ==
    {a \in DOMAIN type_hints : type_hints[a].k = "Field"}

\* the attribute name a wire key is stored under (use_field_names)
field_name(type_hints, key) ==
    IF \E a \in _fields(type_hints) : type_hints[a].n = key
    THEN CHOOSE a \in _fields(type_hints) : type_hints[a].n = key
    ELSE key

\* Ossapi._processed_type_hints: the hooks preprocess_data and
\* override_attributes of the declared record types change nothing
processed_kwargs(type_hints, kwargs, use_field_names) ==
    IF ~use_field_names THEN kwargs
    ELSE LET keys == {field_name(type_hints, key) : key \in DOMAIN kwargs}
         IN [a \in keys |->
                kwargs[CHOOSE key \in DOMAIN kwargs :
                          field_name(type_hints, key) = a]]

processed_hints(type_hints, use_field_types) ==
    IF ~use_field_types THEN type_hints
    ELSE [a \in DOMAIN type_hints |->
            IF type_hints[a].k = "Field" THEN type_hints[a].a[1]
            ELSE type_hints[a]]

\* an instantiator that passes no None for an omitted optional attribute
fill_nothing(kw, type_hints) == kw

\* `if is_optional(annotation): if attribute not in kwargs:
\* kwargs[attribute] = None`
fill_optional(kw, type_hints) ==
    [a \in DOMAIN kw \cup {b \in DOMAIN type_hints : is_optional(type_hints[b])} |->
        IF a \in DOMAIN kw THEN kw[a] ELSE None]

\* an instantiator that hands every key to the constructor
accept_all(filled, type_hints) == DOMAIN filled

\* `if k in type_hints: kwargs_[k] = v`: the keys that reach the constructor
accepted(filled, type_hints) == DOMAIN filled \cap DOMAIN type_hints

\* an instantiator that ignores unexpected keys in strict mode too
never_rejects(strict_, unexpected) == FALSE

\* `else: if self.strict: raise TypeError(...)`
rejects(strict_, unexpected) == strict_ /\ unexpected # {}

\* Ossapi._instantiate: the record instantiator.  The keys of a raw mapping
\* are visited in the order CHOOSE yields them.
_instantiate(strict_, t, kwargs) ==
    IF kwargs.t # "dict" THEN not_a_mapping(t, kwargs)
    ELSE
    LET type_hints == processed_hints(get_type_hints(t.n), FALSE)
        kw == processed_kwargs(type_hints, kwargs.v, TRUE)
        filled == fill_optional(kw, type_hints)
        unexpected == DOMAIN filled \ DOMAIN type_hints
        kwargs_ == [a \in accepted(filled, type_hints) \cup {"_api"} |->
                      IF a = "_api" THEN Api ELSE filled[a]]
        val == construct_model(t, kwargs_)
    IN  IF rejects(strict_, unexpected)
        THEN LET key == CHOOSE key \in unexpected : TRUE
             IN Raise("TypeError",
                      Msg("unexpected parameter", <<key, t.n>>, filled[key], <<>>))
        ELSE IF IsRaise(val)
        THEN Raise("TypeError",
                   Msg("type error while instantiating class", <<t.n>>, None,
                       <<val.v.msg>>))
        ELSE val

RECURSIVE _instantiate_type(_, _, _, _, _)
RECURSIVE _resolve_annotations(_, _)
RECURSIVE instantiate_list(_, _, _, _)
RECURSIVE instantiate_union(_, _, _, _, _, _, _)

\* an instance whose attributes are left as the constructor stored them
_resolve_nothing(strict_, obj) == obj

\* Ossapi._resolve_annotations: coerce every stored attribute of obj
_resolve_annotations(strict_, obj) ==
    LET type_hints == processed_hints(get_type_hints(obj.v.cls), TRUE)
        data == obj.v.data
        skipped(attr) == attr \in {"_api", "__orig_class__"}
                         \/ (data[attr] = None /\ is_optional(type_hints[attr]))
        new == [attr \in DOMAIN data |->
                  IF skipped(attr) THEN data[attr]
                  ELSE _instantiate_type(strict_, type_hints[attr], data[attr],
                                         obj, attr)]
        failed == {attr \in DOMAIN data : IsRaise(new[attr])}
    IN  IF failed # {}
        THEN new[CHOOSE attr \in failed : TRUE]
        ELSE Obj(obj.v.cls,
                 [attr \in DOMAIN data |->
                    IF new[attr] = None THEN data[attr] ELSE new[attr]])

\* a list branch that returns the raw entries
raw_list(strict_, t, entries, i) == ListV(entries)

\* the list branch of _instantiate_type: entries i.. of the raw list
instantiate_list(strict_, t, entries, i) ==
    IF i > Len(entries) THEN ListV(<<>>)
    ELSE LET made == IF is_base_model_type(t)
                     THEN construct_base(t, entries[i])
                     ELSE _instantiate(strict_, t, entries[i])
             entry == IF ~IsRaise(made) /\ is_high_model_type(t)
                      THEN _resolve_annotations(strict_, made)
                      ELSE made
             rest == instantiate_list(strict_, t, entries, i + 1)
         IN  IF IsRaise(entry) THEN entry
             ELSE IF IsRaise(rest) THEN rest
             ELSE ListV(<<entry>> \o rest.v)

RECURSIVE mutated(_, _, _)
\* the raw value x as _instantiate_type(t0, x) leaves it: _instantiate
\* renames the keys of the mapping it is given and fills its omitted
\* optional attributes in place, and the mappings nested in it are those
\* the instances are made from; attributes and entries are visited up to
\* the first that raises
mutated(strict_, t0, x) ==
    LET unwrap == is_optional(t0) /\ Len(get_args(t0)) = 2
        t == IF unwrap THEN get_args(t0)[1] ELSE t0
        origin == get_origin(t)
        args == get_args(t)
    IN  IF is_primitive_type(t) \/ is_base_model_type(t) \/ origin = "Union"
        THEN x
        ELSE IF origin = "list" /\ is_model_type(args[1])
        THEN IF x.t # "list" \/ is_base_model_type(args[1]) THEN x
             ELSE LET entry(i) == _instantiate_type(strict_, args[1], x.v[i], None, "")
                  IN  ListV([i \in 1..Len(x.v) |->
                               IF \A j \in 1..(i - 1) : ~IsRaise(entry(j))
                               THEN mutated(strict_, args[1], x.v[i])
                               ELSE x.v[i]])
        ELSE IF ~is_model_type(t) \/ x.t # "dict"
        THEN x
        ELSE LET type_hints == processed_hints(get_type_hints(t.n), FALSE)
                 types == processed_hints(get_type_hints(t.n), TRUE)
                 filled == fill_optional(processed_kwargs(type_hints, x.v, TRUE),
                                         type_hints)
                 made == _instantiate(strict_, t, x)
                 order == IF IsRaise(made) THEN <<>>
                          ELSE SetToSeq({a \in DOMAIN made.v.data \ {"_api"} :
                                           ~(filled[a] = None /\ is_optional(types[a]))})
                 attr(a) == _instantiate_type(strict_, types[a], filled[a], made, a)
                 visited == {order[i] : i \in {j \in 1..Len(order) :
                                \A h \in 1..(j - 1) : ~IsRaise(attr(order[h]))}}
             IN  DictV([a \in DOMAIN filled |->
                          IF a \in visited THEN mutated(strict_, types[a], filled[a])
                          ELSE filled[a]])

\* a candidate that works on the caller's value itself
attempt_in_place(strict_, t, x) == [seen |-> x, value |-> mutated(strict_, t, x)]

\* `v = copy.deepcopy(value)`, then the candidate works on v: the value the
\* candidate is given, and the caller's value once the candidate is done
attempt_on_copy(strict_, t, x) == [seen |-> x, value |-> x]

\* a union branch that lets the error of a candidate escape
uncaught_union(strict_, args, i, x, obj, attr_name, fail_reasons) ==
    _instantiate_type(strict_, args[i], x, obj, attr_name)

\* the union branch of _instantiate_type: candidates i.. of args
instantiate_union(strict_, args, i, x, obj, attr_name, fail_reasons) ==
    IF i > Len(args)
    THEN Raise("ValueError",
               Msg("Failed to satisfy union", <<attr_name>>, None, fail_reasons))
    ELSE LET v == attempt_on_copy(strict_, args[i], x)
             new_value == _instantiate_type(strict_, args[i], v.seen, obj, attr_name)
         IN  IF IsRaise(new_value)
             THEN instantiate_union(strict_, args, i + 1, v.value, obj, attr_name,
                                    Append(fail_reasons, new_value.v.msg))
             ELSE IF new_value = None
             THEN Raise("ValueError",
                        Msg("Failed to satisfy union", <<attr_name>>, None,
                            fail_reasons))
             ELSE new_value

\* a check that lets a null through in strict mode too
_check_unless_null(strict_, t, x, attr_name) ==
    IF x = None THEN x
    ELSE IF ~isinstance(x, t)
    THEN Raise("TypeError", Msg("expected type", <<t.n, x.t, attr_name>>, x, <<>>))
    ELSE x

\* _check_primitive_type, after convert_primitive_type
_check_primitive_type(strict_, t, x, attr_name) ==
    IF ~strict_ /\ x = None THEN x
    ELSE IF ~isinstance(x, t)
    THEN Raise("TypeError",
               IF attr_name # ""
               THEN Msg("expected type", <<t.n, x.t, attr_name>>, x, <<>>)
               ELSE EmptyMsg)
    ELSE x

\* Ossapi._instantiate_type: the value coercion engine.  attr_name "" is
\* the attr_name=None of a top-level value.
_instantiate_type(strict_, t0, x, obj, attr_name) ==
    LET unwrap == is_optional(t0) /\ Len(get_args(t0)) = 2
        t == IF unwrap THEN get_args(t0)[1] ELSE t0
        origin == get_origin(t)
        args == IF is_optional(t0) /\ ~unwrap
                THEN SelectSeq(get_args(t0), LAMBDA c : c # NoneType)
                ELSE get_args(t)
    IN  IF is_primitive_type(t)
        THEN _check_primitive_type(strict_, t, convert_primitive_type(x, t),
                                   attr_name)
        ELSE IF is_base_model_type(t) THEN construct_base(t, x)
        ELSE IF origin = "list" /\ is_model_type(args[1])
        THEN IF ~iterable(x) THEN iterate(x)
             ELSE instantiate_list(strict_, args[1], iterate(x), 1)
        ELSE IF origin = "Union"
        THEN instantiate_union(strict_, args, 1, x, obj, attr_name, <<>>)
        ELSE IF ~is_model_type(t)
        THEN None
        ELSE LET made == _instantiate(strict_, t, x)
             IN  IF IsRaise(made) THEN made
                 ELSE _resolve_annotations(strict_, made)

(***************************************************************************)
(* Deserialisation runs: the inputs a run is started on.                   *)
(***************************************************************************)
MaxLen == 2

\* a key the raw mapping does not carry
Absent == [t |-> "absent", v |-> 0]
\* the raw mapping of the keys of f that are present
Mapping(f) == DictV([key \in {j \in DOMAIN f : f[j] # Absent} |-> f[key]])

RECURSIVE SeqsUpTo(_, _)
SeqsUpTo(S, n) ==
    IF n = 0 THEN {<<>>}
    ELSE LET shorter == SeqsUpTo(S, n - 1)
         IN shorter \cup {Append(q, e) : q \in {r \in shorter : Len(r) = n - 1},
                                         e \in S}

Scalars == {None, IntV(0), IntV(5), FloatV(5), StrV("foo"), StrV("osu"),
            BoolV(TRUE)}

NestedDicts ==
    {Mapping([id |-> i, zzz |-> z]) :
        i \in {Absent, None, IntV(6), StrV("x")}, z \in {Absent, IntV(1)}}

OtherDicts ==
    {Mapping([id |-> i, tag |-> g, zzz |-> z]) :
        i \in {Absent, IntV(6), StrV("x")}, g \in {Absent, None, StrV("t")},
        z \in {Absent, IntV(1)}}

RecordDicts ==
    {Mapping([id |-> i, name |-> m, nested |-> d, zzz |-> z]) :
        i \in {Absent, IntV(5), BoolV(TRUE)}, m \in {Absent, None, StrV("foo")},
        d \in {Absent, None} \cup NestedDicts, z \in {Absent, IntV(1)}}

CoversDicts ==
    {Mapping([cover |-> c, zzz |-> z] @@ ("cover@2x" :> c2)) :
        c \in {Absent, StrV("c")}, c2 \in {Absent, None, StrV("c2")},
        z \in {Absent, IntV(1)}}

ListEntries == {Mapping([id |-> IntV(6)]), Mapping([id |-> IntV(7), zzz |-> IntV(1)]),
                Mapping([id |-> StrV("x")])}
NestedLists == {ListV(q) : q \in SeqsUpTo(ListEntries, MaxLen)}

HolderDicts ==
    {Mapping([u |-> d, items |-> l, n |-> m, ratios |-> r, meta |-> e, zzz |-> z]) :
        d \in {Absent, Mapping([id |-> IntV(6)]),
               Mapping([id |-> IntV(6), tag |-> StrV("t")]),
               Mapping([id |-> IntV(6), zzz |-> IntV(1)]),
               Mapping([id |-> StrV("x")])},
        l \in {Absent, None} \cup NestedLists,
        m \in {Absent, None, IntV(5), StrV("foo")},
        r \in {Absent, ListV(<<FloatV(5), IntV(5)>>), ListV(<<StrV("x")>>)},
        e \in {Absent, Mapping([extra |-> IntV(1)])},
        z \in {Absent, IntV(1)}}

ScalarLists == {ListV(q) : q \in SeqsUpTo({IntV(5), StrV("osu")}, MaxLen)}

StatsDicts ==
    {Mapping([count |-> c, mode |-> StrV("osu"), ratio |-> r, ranked |-> k,
              nested |-> d]) :
        c \in {Absent, IntV(5), BoolV(TRUE), StrV("x")},
        r \in {FloatV(5), IntV(5), StrV("x")},
        k \in {BoolV(TRUE), BoolV(FALSE), IntV(0)},
        d \in {None, Mapping([id |-> IntV(6)]), Mapping([id |-> StrV("x")])}}

OuterDicts ==
    {Mapping([record |-> r, others |-> l]) :
        r \in {None, IntV(5)}
                \cup {Mapping([id |-> IntV(5), name |-> StrV("foo"), nested |-> d]) :
                        d \in {Absent, None, Mapping([id |-> IntV(6)]),
                               Mapping([id |-> IntV(6), zzz |-> IntV(1)]),
                               Mapping([id |-> StrV("x")])}},
        l \in {None, Mapping([id |-> IntV(6)])}
                \cup {ListV(q) :
                        q \in SeqsUpTo({Mapping([id |-> IntV(6)]),
                                        Mapping([id |-> IntV(7), tag |-> None]),
                                        Mapping([id |-> IntV(8), zzz |-> IntV(1)]),
                                        StrV("x")}, MaxLen)}}

RawValues ==
    Scalars \cup NestedDicts \cup OtherDicts \cup RecordDicts \cup CoversDicts
        \cup NestedLists \cup HolderDicts \cup StatsDicts \cup OuterDicts
        \cup ScalarLists

TargetTypes ==
    {int, float, str, bool, dict, BaseModelT("GameMode"), list(int),
     list(BaseModelT("GameMode")), list(Union(<<int, str>>)),
     Optional(int), Union(<<int, str>>), Union(<<int, str, NoneType>>),
     Optional(ModelT("NestedType")), list(ModelT("NestedType")),
     Union(<<ModelT("NestedType"), ModelT("Other")>>),
     Union(<<ModelT("Other"), ModelT("NestedType")>>)}
        \cup {ModelT(name) : name \in ModelNames}

(***************************************************************************)
(* The `request` decorator.                                                *)
(***************************************************************************)
MaxId == 1

\* parameter type aliases
GameModeT == Union(<<BaseModelT("GameMode"), str>>)
RoomSearchModeT == Union(<<BaseModelT("RoomSearchMode"), str>>)
UserLookupKeyT == Union(<<BaseModelT("UserLookupKey"), str>>)
ModT == Union(<<BaseModelT("Mod"), str, int,
                list(Union(<<BaseModelT("Mod"), str, int>>))>>)
BeatmapIdT == Union(<<int, ModelT("BeatmapCompact")>>)
UserIdT == Union(<<int, ModelT("UserCompact")>>)
BeatmapsetIdT ==
    Union(<<int, ModelT("BeatmapCompact"), ModelT("BeatmapsetCompact")>>)
RoomIdT == Union(<<int, ModelT("Room")>>)
MatchIdT == Union(<<int, ModelT("Match")>>)

\* rich objects a caller holds
BeatmapCompact(i, s) ==
    Obj("BeatmapCompact", [id |-> IntV(i), beatmapset_id |-> IntV(s)])
BeatmapsetCompact(i) == Obj("BeatmapsetCompact", [id |-> IntV(i)])
UserCompact(i) == Obj("UserCompact", [id |-> IntV(i)])
Room(i) == Obj("Room", [id |-> IntV(i)])
Match(i) == Obj("Match", [id |-> IntV(i)])

\* isinstance(arg, <model class>)
isinstance_of(arg, cls) == arg.t = "obj" /\ arg.v.cls = cls

\* typing_utils.issubtype(left, right): every member of left is a member
\* of right
members(t) == IF t.k = "Union" THEN SeqToSet(t.a) ELSE {t}
issubtype(left, right) == members(left) \subseteq members(right)

\* one parameter of an endpoint's signature
Param(name, type, kwonly, required) ==
    [name |-> name, type |-> type, kwonly |-> kwonly, required |-> required]

NoScope == "None"

\* the endpoints: @request(scope, requires_user=...), signature and the
\* type the body asks _request for.  The result types are record types of
\* ossapi.models, declared here like NestedType.
EndpointNames ==
    {"seasonal_backgrounds", "get_me", "room", "rooms", "beatmapset", "match",
     "user"}

Endpoint(name) ==
    CASE name = "seasonal_backgrounds" ->
            [scope |-> NoScope, requires_user |-> FALSE, params |-> <<>>,
             returns |-> ModelT("NestedType")]
      [] name = "get_me" ->
            [scope |-> "identify", requires_user |-> FALSE,
             params |-> <<Param("mode", Optional(GameModeT), FALSE, FALSE)>>,
             returns |-> ModelT("NestedType")]
      [] name = "room" ->
            [scope |-> "public", requires_user |-> FALSE,
             params |-> <<Param("room_id", RoomIdT, FALSE, TRUE)>>,
             returns |-> ModelT("NestedType")]
      [] name = "rooms" ->
            [scope |-> "public", requires_user |-> TRUE,
             params |-> <<Param("limit", Optional(int), TRUE, FALSE),
                          Param("mode", Optional(RoomSearchModeT), TRUE, FALSE),
                          Param("season_id", Optional(int), TRUE, FALSE),
                          Param("sort", Optional(str), TRUE, FALSE),
                          Param("type_group", Optional(str), TRUE, FALSE)>>,
             returns |-> list(ModelT("NestedType"))]
      [] name = "beatmapset" ->
            [scope |-> "public", requires_user |-> FALSE,
             params |-> <<Param("beatmapset_id", Optional(BeatmapsetIdT), FALSE,
                                FALSE),
                          Param("beatmap_id", Optional(BeatmapIdT), TRUE, FALSE)>>,
             returns |-> ModelT("NestedType")]
      [] name = "match" ->
            [scope |-> "public", requires_user |-> FALSE,
             params |-> <<Param("match_id", MatchIdT, FALSE, TRUE),
                          Param("after_id", Optional(int), TRUE, FALSE),
                          Param("before_id", Optional(int), TRUE, FALSE),
                          Param("limit", Optional(int), TRUE, FALSE)>>,
             returns |-> ModelT("NestedType")]
      [] name = "download_score" ->
            [scope |-> "public", requires_user |-> TRUE,
             params |-> <<Param("score_id", int, FALSE, TRUE),
                          Param("raw", bool, TRUE, FALSE)>>,
             returns |-> NoneType]
      [] name = "score_mode" ->
            [scope |-> "public", requires_user |-> FALSE,
             params |-> <<Param("mode", GameModeT, FALSE, TRUE),
                          Param("score_id", int, FALSE, TRUE)>>,
             returns |-> ModelT("NestedType")]
      [] name = "beatmap_attributes" ->
            [scope |-> "public", requires_user |-> FALSE,
             params |-> <<Param("beatmap_id", int, FALSE, TRUE),
                          Param("mods", Optional(ModT), TRUE, FALSE),
                          Param("ruleset", Optional(GameModeT), TRUE, FALSE),
                          Param("ruleset_id", Optional(int), TRUE, FALSE)>>,
             returns |-> ModelT("NestedType")]
      [] name = "user" ->
            [scope |-> "public", requires_user |-> FALSE,
             params |-> <<Param("user", Union(<<int, ModelT("UserCompact"), str>>),
                                FALSE, TRUE),
                          Param("mode", Optional(GameModeT), TRUE, FALSE),
                          Param("key", Optional(UserLookupKeyT), TRUE, FALSE)>>,
             returns |-> ModelT("NestedType")]

\* function.__annotations__ of the endpoint: parameter name -> type
annotations(e) ==
    [name \in {e.params[i].name : i \in 1..Len(e.params)} |->
        (CHOOSE q \in SeqToSet(e.params) : q.name = name).type]

\* a decorator that converts no parameter
instantiate_nothing(e) == {}

\* the decorator's `instantiate`: the parameters to convert to a base model
instantiate(e) ==
    {name \in DOMAIN annotations(e) :
        /\ get_origin(annotations(e)[name]) = "Union"
        /\ is_base_model_type(get_args(annotations(e)[name])[1])}

\* id_from_id_type(arg_name, arg)
id_from_id_type(e, arg_name, arg) ==
    IF arg_name \notin DOMAIN annotations(e) THEN None
    ELSE LET arg_type == annotations(e)[arg_name]
         IN  IF issubtype(BeatmapsetIdT, arg_type)
             THEN IF isinstance_of(arg, "BeatmapCompact")
                  THEN arg.v.data.beatmapset_id
                  ELSE IF isinstance_of(arg, "BeatmapsetCompact")
                  THEN arg.v.data.id
                  ELSE None
             ELSE IF issubtype(BeatmapIdT, arg_type)
             THEN IF isinstance_of(arg, "BeatmapCompact") THEN arg.v.data.id
                  ELSE None
             ELSE IF issubtype(UserIdT, arg_type)
             THEN IF isinstance_of(arg, "UserCompact") THEN arg.v.data.id
                  ELSE None
             ELSE IF issubtype(RoomIdT, arg_type)
             THEN IF isinstance_of(arg, "Room") THEN arg.v.data.id ELSE None
             ELSE IF issubtype(MatchIdT, arg_type)
             THEN IF isinstance_of(arg, "Match") THEN arg.v.data.id ELSE None
             ELSE None

\* whether the wrapper replaces the argument by the id it found: `if id_:`
id_taken(id_) == truthy(id_)

\* the body of the wrapper's loops for one argument: the value the
\* argument is replaced by, or the exception the conversion raises
normalize_arg(e, arg_name, arg) ==
    LET skip == /\ arg_name \in instantiate(e)
                /\ is_optional(annotations(e)[arg_name])
                /\ arg = None
        made == IF arg_name \in instantiate(e) /\ ~skip
                THEN construct_base(get_args(annotations(e)[arg_name])[1], arg)
                ELSE arg
        id_ == id_from_id_type(e, arg_name, arg)
    IN  IF skip \/ IsRaise(made) THEN made
        ELSE IF id_taken(id_) THEN id_
        ELSE made

\* arg_names, without self
arg_names(e) == [i \in 1..Len(e.params) |-> e.params[i].name]

\* function(*args, **kwargs): Python binds the arguments to the signature
bind(e, args, kwargs) ==
    LET names == arg_names(e)
        positional == {i \in 1..Len(names) : ~e.params[i].kwonly}
        given(i) == i <= Len(args) \/ names[i] \in DOMAIN kwargs
    IN  IF \/ Len(args) > Cardinality(positional)
           \/ \E key \in DOMAIN kwargs : key \notin SeqToSet(names)
           \/ \E i \in 1..Len(args) : names[i] \in DOMAIN kwargs
           \/ \E i \in 1..Len(names) : e.params[i].required /\ ~given(i)
        THEN Raise("TypeError", Msg("bad arguments", <<>>, None, <<>>))
        ELSE DictV([name \in SeqToSet(names) |->
                      LET i == CHOOSE j \in 1..Len(names) : names[j] = name
                      IN  IF i <= Len(args) THEN args[i]
                          ELSE IF name \in DOMAIN kwargs THEN kwargs[name]
                          ELSE None])

\* a wrapper that lets every scope through
scope_unchecked(scopes_, e) == FALSE

\* `if scope is not None and scope not in self.scopes`
scope_missing(scopes_, e) == e.scope # NoScope /\ e.scope \notin scopes_

\* a wrapper that lets every grant through
user_unchecked(grant_, e) == FALSE

\* `if requires_user and self.grant is Grant.CLIENT_CREDENTIALS`
user_missing(grant_, e) == e.requires_user /\ grant_ = "client"

\* the decorator's wrapper, up to the call of the endpoint body: the
\* arguments the body receives, or the exception raised before it runs
wrapper(grant_, scopes_, name, args, kwargs) ==
    LET e == Endpoint(name)
        names == arg_names(e)
        \* zip(arg_names, args) stops at the shorter of the two
        zipped == 1..(IF Len(args) < Len(names) THEN Len(args) ELSE Len(names))
        new_args == [i \in 1..Len(args) |->
                       IF i \in zipped THEN normalize_arg(e, names[i], args[i])
                       ELSE args[i]]
        new_kwargs == [key \in DOMAIN kwargs |-> normalize_arg(e, key, kwargs[key])]
        bad_args == {i \in 1..Len(args) : IsRaise(new_args[i])}
        bad_kwargs == {key \in DOMAIN kwargs : IsRaise(new_kwargs[key])}
    IN  IF scope_missing(scopes_, e)
        THEN Raise("InsufficientScopeError", Msg("scope", <<e.scope>>, None, <<>>))
        ELSE IF user_missing(grant_, e)
        THEN Raise("AccessDeniedError", Msg("grant", <<grant_>>, None, <<>>))
        ELSE IF bad_args # {}
        THEN new_args[CHOOSE i \in bad_args : \A j \in bad_args : i <= j]
        ELSE IF bad_kwargs # {}
        THEN new_kwargs[CHOOSE key \in bad_kwargs : TRUE]
        ELSE bind(e, new_args, new_kwargs)

\* what the endpoint body does with its arguments before it calls _request
body(name, got) ==
    IF /\ name = "beatmapset"
       /\ ~(truthy(got["beatmap_id"]) # truthy(got["beatmapset_id"]))
    THEN Raise("ValueError", Msg("exactly one of", <<>>, None, <<>>))
    ELSE None

(***************************************************************************)
(* The client: construction, endpoint calls and the _request cycle.        *)
(***************************************************************************)
MaxGrants == 3

\* a run or a call that has not returned yet
Pending == [t |-> "pending", v |-> 0]

NoCall == [endpoint |-> "", args |-> <<>>, kwargs |-> <<>>]

\* Oauth2SessionOssapi sets the ossapi headers; a bare OAuth2Session has none
Oauth2SessionOssapi(token) == [kind |-> "Oauth2SessionOssapi", token |-> token]
OAuth2Session(token) == [kind |-> "OAuth2Session", token |-> token]

\* the headers a session adds to every request: Oauth2SessionOssapi.__init__
\* updates them with the ossapi User-Agent and the x-api-version of the
\* client, a plain OAuth2Session has neither
headers(s) ==
    IF s.kind = "Oauth2SessionOssapi" THEN {"User-Agent", "x-api-version"} ELSE {}

\* the token a new grant fetches: one this client has not held before
fresh_token == 1 + (IF session.token > token_file THEN session.token ELSE token_file)

\* Ossapi._new_client_grant, Ossapi._new_authorization_grant: the session
\* they return; both save the fetched token
\* a client grant that fetches no token: the session keeps the one it had
_stale_client_grant == Oauth2SessionOssapi(session.token)
_new_client_grant == Oauth2SessionOssapi(fresh_token)
_new_authorization_grant == OAuth2Session(fresh_token)
_new_grant ==
    IF grant = "client" THEN _new_client_grant ELSE _new_authorization_grant

\* response bodies of the server
Basic == Mapping([authentication |-> StrV("basic")])
Responses ==
    {Basic, Mapping([error |-> StrV("msg")]),
     Mapping([error |-> StrV("msg"), id |-> IntV(6)]),
     Mapping([id |-> IntV(6)]), Mapping([id |-> IntV(6), zzz |-> IntV(1)]),
     ListV(<<Mapping([id |-> IntV(6)])>>)}

\* a response check that knows the error payload only
_check_error_only(j) ==
    IF j.t = "dict" /\ Cardinality(DOMAIN j.v) = 1 /\ "error" \in DOMAIN j.v
    THEN Raise("ValueError", Msg("api returned an error", <<"url">>, j.v["error"], <<>>))
    ELSE None

\* a check that lets every response through
_check_nothing(j) == None

\* Ossapi._check_response
_check_response(j) ==
    IF j.t = "dict" /\ Cardinality(DOMAIN j.v) = 1 /\ "error" \in DOMAIN j.v
    THEN Raise("ValueError", Msg("api returned an error", <<"url">>, j.v["error"], <<>>))
    ELSE IF j = Basic
    THEN Raise("ValueError", Msg("Permission denied", <<"url">>, None, <<>>))
    ELSE None

RECURSIVE hinted(_, _, _)
\* the classes _get_type_hints is asked for while a value is coerced: one
\* lookup for every _instantiate of a model class
hinted_children(strict_, t, x) ==
    LET made == _instantiate(strict_, t, x)
        type_hints == processed_hints(get_type_hints(t.n), TRUE)
    IN  IF IsRaise(made) THEN {}
        ELSE UNION {IF made.v.data[attr] = None /\ is_optional(type_hints[attr])
                    THEN {}
                    ELSE hinted(strict_, type_hints[attr], made.v.data[attr]) :
                    attr \in DOMAIN made.v.data \ {"_api"}}

hinted(strict_, t0, x) ==
    LET unwrap == is_optional(t0) /\ Len(get_args(t0)) = 2
        t == IF unwrap THEN get_args(t0)[1] ELSE t0
        origin == get_origin(t)
        args == IF is_optional(t0) /\ ~unwrap
                THEN SelectSeq(get_args(t0), LAMBDA c : c # NoneType)
                ELSE get_args(t)
        done(i) == ~IsRaise(_instantiate_type(strict_, args[i], x, None, ""))
    IN  IF is_primitive_type(t) \/ is_base_model_type(t) THEN {}
        ELSE IF origin = "list" /\ is_model_type(args[1])
        THEN IF ~iterable(x) \/ is_base_model_type(args[1]) THEN {}
             ELSE UNION {{args[1].n}
                            \cup hinted_children(strict_, args[1], iterate(x)[i]) :
                         i \in {j \in 1..Len(iterate(x)) :
                                  \A h \in 1..(j - 1) :
                                     ~IsRaise(_instantiate_type(strict_, args[1],
                                                                iterate(x)[h],
                                                                None, ""))}}
        ELSE IF origin = "Union"
        THEN UNION {hinted(strict_, args[i], x) :
                    i \in {j \in 1..Len(args) : \A h \in 1..(j - 1) : ~done(h)}}
        ELSE IF ~is_model_type(t) THEN {}
        ELSE {t.n} \cup hinted_children(strict_, t, x)

\* the state after construction: __init__ and authenticate(token)
Init ==
    /\ grant \in {"client", "authorization"}
    /\ scopes \in IF grant = "client" THEN {{"public"}}
                  ELSE {{"public"}, {"public", "identify"}}
    /\ strict \in BOOLEAN
    /\ access_token_passed \in BOOLEAN
    /\ \/ /\ access_token_passed
          /\ session = Oauth2SessionOssapi(0)
          /\ token_file \in {-1, 1}
       \/ /\ ~access_token_passed
          /\ token_file = 1
          /\ session \in {Oauth2SessionOssapi(1)}
                            \cup (IF grant = "client" THEN {} ELSE {OAuth2Session(1)})
    /\ cache = {}
    /\ pc = "idle"
    /\ call = NoCall
    /\ received = None
    /\ json_ = None
    /\ nreq = 0
    /\ ngrant = 0
    /\ outcome = None
    /\ type_ = NoneType
    /\ value = None
    /\ result = None
    /\ cursor = <<>>
    /\ sent = <<>>

\* the call ends: it returns x or raises x
\* a request start that leaves the cache as the last request left it
_keep_type_hints_cache == cache

\* Ossapi._clear_type_hints_cache
_clear_type_hints_cache == {}

Return(x) ==
    /\ pc' = "idle"
    /\ outcome' = x

\* An endpoint method is called: the decorator's wrapper, the endpoint body
\* and the start of _request (the cache is cleared, the parameters are
\* formatted), up to the first make_request().
Invoke(c) ==
    /\ pc = "idle"
    /\ call' = c
    /\ LET got == wrapper(grant, scopes, c.endpoint, c.args, c.kwargs)
           early == IF IsRaise(got) THEN got ELSE body(c.endpoint, got.v)
       IN  IF IsRaise(early)
           THEN /\ Return(early)
                /\ UNCHANGED <<received, cache, json_, nreq, ngrant>>
           ELSE /\ received' = got
                /\ cache' = _clear_type_hints_cache
                /\ json_' = None
                /\ nreq' = 0
                /\ ngrant' = 0
                /\ pc' = "make_request"
                /\ outcome' = Pending
    /\ UNCHANGED <<grant, scopes, strict, access_token_passed, session,
                   token_file, type_, value, result, cursor, sent>>

\* a _request that reauthenticates on every {"authentication": "basic"}
Got_basic_again(j, after) ==
    /\ json_' = j
    /\ pc' = IF j = Basic THEN "reauth2" ELSE "check"

\* where _request goes with the response r of a make_request()
Got(j, after) ==
    /\ json_' = j
    /\ pc' = IF j = Basic /\ after # "reauth2" THEN "reauth2" ELSE "check"

\* r = make_request() in the try block
MakeRequest ==
    /\ pc = "make_request"
    /\ nreq' = nreq + 1
    /\ \/ \E j \in Responses : Got(j, "try") /\ UNCHANGED outcome
       \/ \* TokenExpiredError
          IF grant # "client"
          THEN Return(Raise("TokenExpiredError", EmptyMsg)) /\ UNCHANGED json_
          ELSE pc' = "new_client_grant" /\ UNCHANGED <<json_, outcome>>
       \/ \* OAuth2Error, "The refresh token is invalid."
          pc' = "reauth1" /\ UNCHANGED <<json_, outcome>>
       \/ \* any other OAuth2Error
          Return(Raise("OAuth2Error", EmptyMsg)) /\ UNCHANGED json_
    /\ UNCHANGED <<grant, scopes, strict, access_token_passed, session,
                   token_file, cache, call, received, ngrant, type_, value,
                   result, cursor, sent>>

\* the TokenExpiredError handler: self.session = self._new_client_grant(...)
NewClientGrant ==
    /\ pc = "new_client_grant"
    /\ fresh_token <= MaxGrants
    /\ session' = _new_client_grant
    /\ token_file' = fresh_token
    /\ ngrant' = ngrant + 1
    /\ pc' = "retry1"
    /\ UNCHANGED <<grant, scopes, strict, access_token_passed, cache, call,
                   received, json_, nreq, outcome, type_, value, result, cursor, sent>>

\* reauthenticate_and_retry(), up to its make_request()
Reauthenticate ==
    /\ pc \in {"reauth1", "reauth2"}
    /\ IF access_token_passed
       THEN /\ Return(Raise("ReauthenticationRequired", EmptyMsg))
            /\ UNCHANGED <<session, token_file, ngrant>>
       ELSE /\ fresh_token <= MaxGrants
            /\ session' = _new_grant
            /\ token_file' = fresh_token
            /\ ngrant' = ngrant + 1
            /\ pc' = IF pc = "reauth1" THEN "retry1" ELSE "retry2"
            /\ UNCHANGED outcome
    /\ UNCHANGED <<grant, scopes, strict, access_token_passed, cache, call,
                   received, json_, nreq, type_, value, result, cursor, sent>>

\* the make_request() that redoes the request; what it raises propagates
Retry ==
    /\ pc \in {"retry1", "retry2"}
    /\ nreq' = nreq + 1
    /\ \/ \E j \in Responses :
            Got(j, IF pc = "retry1" THEN "retry1" ELSE "reauth2")
               /\ UNCHANGED outcome
       \/ \E exc \in {"TokenExpiredError", "OAuth2Error"} :
            Return(Raise(exc, EmptyMsg)) /\ UNCHANGED json_
    /\ UNCHANGED <<grant, scopes, strict, access_token_passed, session,
                   token_file, cache, call, received, ngrant, type_, value,
                   result, cursor, sent>>

\* self._check_response(json_, r.url); return self._instantiate_type(...)
Finish ==
    /\ pc = "check"
    /\ LET t == Endpoint(call.endpoint).returns
           bad == _check_response(json_)
       IN  IF IsRaise(bad)
           THEN Return(bad) /\ UNCHANGED cache
           ELSE /\ Return(_instantiate_type(strict, t, json_, None, ""))
                /\ cache' = cache \cup hinted(strict, t, json_)
    /\ UNCHANGED <<grant, scopes, strict, access_token_passed, session,
                   token_file, call, received, json_, nreq, ngrant, type_, value,
                   result, cursor, sent>>

\* the calls of the request cycle: every endpoint, with the arguments it
\* requires
CycleCalls ==
    {[endpoint |-> name,
      args |-> IF Len(Endpoint(name).params) > 0 /\ Endpoint(name).params[1].required
               THEN <<x>> ELSE <<>>,
      kwargs |-> <<>>] :
        name \in EndpointNames, x \in {IntV(5)}}
        \cup {[endpoint |-> "room", args |-> <<Room(1)>>, kwargs |-> <<>>]}

Next ==
    \/ \E c \in CycleCalls : Invoke(c)
    \/ MakeRequest
    \/ NewClientGrant
    \/ Reauthenticate
    \/ Retry
    \/ Finish

Spec == Init /\ [][Next]_vars

(***************************************************************************)
(* The coercion engine on its own: _instantiate_type applied once to a     *)
(* target type and a raw value drawn from the input families.              *)
(***************************************************************************)
CoerceInit ==
    /\ strict \in BOOLEAN
    /\ type_ \in TargetTypes
    /\ value \in RawValues
    /\ result = Pending
    /\ cursor = <<>>
    /\ sent = <<>>
    /\ grant = "client"
    /\ scopes = {"public"}
    /\ access_token_passed = FALSE
    /\ session = Oauth2SessionOssapi(1)
    /\ token_file = 1
    /\ cache = {}
    /\ pc = "idle"
    /\ call = NoCall
    /\ received = None
    /\ json_ = None
    /\ nreq = 0
    /\ ngrant = 0
    /\ outcome = None

\* self._instantiate_type(type_, value)
Coerce ==
    /\ result = Pending
    /\ result' = _instantiate_type(strict, type_, value, None, "")
    /\ UNCHANGED <<type_, value, clientVars, cursor, sent>>

CoerceNext == Coerce

SpecCoerce == CoerceInit /\ [][CoerceNext]_vars

(***************************************************************************)
(* The decorator on its own: one endpoint call with arbitrary arguments,   *)
(* followed up to the point where the endpoint body is entered.            *)
(***************************************************************************)
\* argument values a caller passes: integers, strings, None and the rich
\* objects, with identifiers 0..MaxId
ArgValues ==
    {None, StrV("osu"), StrV("HR"), BaseObj("GameMode", "osu")}
       \cup {IntV(i) : i \in 0..MaxId}
       \cup {Room(i) : i \in 0..MaxId}
       \cup {Match(i) : i \in 0..MaxId}
       \cup {UserCompact(i) : i \in 0..MaxId}
       \cup {BeatmapsetCompact(i) : i \in 0..MaxId}
       \cup {BeatmapCompact(i, s) : i \in 0..MaxId, s \in 0..MaxId}

\* keyword names a caller uses: the endpoint's own and one more, "mode",
\* which several endpoints do not accept
KeywordNames(name) == SeqToSet(arg_names(Endpoint(name))) \cup {"mode"}

\* calls with at most one positional and one keyword argument
AllCalls ==
    UNION {{[endpoint |-> name, args |-> a, kwargs |-> k] :
              a \in {<<>>} \cup {<<x>> : x \in ArgValues},
              k \in {<<>>} \cup {(key :> x) : key \in KeywordNames(name),
                                              x \in ArgValues}} :
           name \in EndpointNames
                       \cup {"download_score", "score_mode", "beatmap_attributes"}}

CallInit ==
    /\ grant \in {"client", "authorization"}
    /\ scopes \in IF grant = "client" THEN {{"public"}}
                  ELSE {{"public"}, {"public", "identify"}}
    /\ strict = FALSE
    /\ access_token_passed = FALSE
    /\ session = Oauth2SessionOssapi(1)
    /\ token_file = 1
    /\ cache = {}
    /\ pc = "idle"
    /\ call = NoCall
    /\ received = None
    /\ json_ = None
    /\ nreq = 0
    /\ ngrant = 0
    /\ outcome = None
    /\ type_ = NoneType
    /\ value = None
    /\ result = None
    /\ cursor = <<>>
    /\ sent = <<>>

\* wrapper(*args, **kwargs) up to `return function(*args, **kwargs)`: the
\* body is entered with the arguments in `received`, or the call has raised
Call(c) ==
    /\ pc = "idle"
    /\ call = NoCall
    /\ call' = c
    /\ LET got == wrapper(grant, scopes, c.endpoint, c.args, c.kwargs)
       IN  IF IsRaise(got)
           THEN Return(got) /\ UNCHANGED received
           ELSE /\ received' = got
                /\ pc' = "body"
                /\ outcome' = Pending
    /\ UNCHANGED <<grant, scopes, strict, access_token_passed, session,
                   token_file, cache, json_, nreq, ngrant, type_, value, result, cursor, sent>>

CallNext == call = NoCall /\ \E c \in AllCalls : Call(c)

SpecCall == CallInit /\ [][CallNext]_vars

(***************************************************************************)
(* Request parameters.  An endpoint with a cursor parameter is called      *)
(* repeatedly with the Cursor object the caller holds; `cursor` is that    *)
(* object's __dict__, a flat mapping of keys to primitive values.          *)
(***************************************************************************)
MaxCalls == 2

\* the Cursor object, as a value among the params
CursorRef == [t |-> "Cursor", v |-> 0]
DatetimeV(ts) == [t |-> "datetime", v |-> ts]

\* the enum classes among the base models
EnumNames == {"GameMode", "RankingFilter", "RankingType"}

put(d, key, x) == [k \in DOMAIN d \cup {key} |-> IF k = key THEN x ELSE d[k]]
del(d, key) == [k \in DOMAIN d \ {key} |-> d[k]]

\* Ossapi._format_value
_format_value(x) ==
    IF x.t = "datetime" THEN IntV(1000 * x.v)
    ELSE IF x.t = "base" /\ x.v.cls \in EnumNames THEN StrV(x.v.value)
    ELSE IF x.t = "bool" THEN StrV("false")
    ELSE x

\* Mod.decompose(clean=True) and short_name(), for the mods of the model
short_names(x) == <<StrV(x.v.value)>>

RECURSIVE format_items(_, _, _)
\* Ossapi._format_params: the loop over the items of keys, on the dict
\* params_ it was given and with dict_ the Cursor's __dict__; both dicts
\* are written in place
format_items(keys, params_, dict_) ==
    IF keys = {} THEN [params |-> params_, cursor |-> dict_]
    ELSE
    LET key == CHOOSE k \in keys : TRUE
        x == params_[key]
        rest == keys \ {key}
    IN  IF x.t = "list"
        THEN format_items(rest,
                          del(put(params_, key \o "[]",
                                  ListV([i \in 1..Len(x.v) |-> _format_value(x.v[i])])),
                              key),
                          dict_)
        ELSE IF x = CursorRef
        THEN LET new_params == format_items(DOMAIN dict_, dict_, dict_).params
                 with == [k \in DOMAIN params_
                                  \cup {"cursor[" \o c \o "]" : c \in DOMAIN new_params}
                            |-> IF k \in DOMAIN params_ THEN params_[k] ELSE None]
                 set == [k \in DOMAIN with |->
                           IF \E c \in DOMAIN new_params : k = "cursor[" \o c \o "]"
                           THEN new_params[CHOOSE c \in DOMAIN new_params :
                                              k = "cursor[" \o c \o "]"]
                           ELSE with[k]]
             IN  format_items(rest, del(set, key), new_params)
        ELSE IF x.t = "base" /\ x.v.cls = "Mod"
        THEN format_items(rest, del(put(params_, key \o "[]", ListV(short_names(x))),
                                    key),
                          dict_)
        ELSE format_items(rest, put(params_, key, _format_value(x)), dict_)

\* Ossapi._format_params(params)
_format_params(params_, dict_) == format_items(DOMAIN params_, params_, dict_)

CursorKeys == {"id", "page", "more"}
CursorValues ==
    {Absent, IntV(5), StrV("x"), BoolV(TRUE), BoolV(FALSE), DatetimeV(2)}
Cursors ==
    {Mapping([id |-> i, page |-> p, more |-> m]).v :
        i \in CursorValues \ {Absent}, p \in CursorValues, m \in CursorValues}

\* the params the body of ranking() builds
ranking_params(country, cursor_, filter_) ==
    [country |-> country, cursor |-> cursor_, filter |-> filter_,
     spotlight |-> None, variant |-> None]

FormatInit ==
    /\ cursor \in Cursors
    /\ sent = <<>>
    /\ strict = FALSE
    /\ type_ = NoneType
    /\ value = None
    /\ result = None
    /\ grant = "client"
    /\ scopes = {"public"}
    /\ access_token_passed = FALSE
    /\ session = Oauth2SessionOssapi(1)
    /\ token_file = 1
    /\ cache = {}
    /\ pc = "idle"
    /\ call = NoCall
    /\ received = None
    /\ json_ = None
    /\ nreq = 0
    /\ ngrant = 0
    /\ outcome = None

\* _request formats the params of a call to ranking(): the caller passes
\* its Cursor object or no cursor
Format(country, cursor_, filter_) ==
    /\ Len(sent) < MaxCalls
    /\ LET done == _format_params(ranking_params(country, cursor_, filter_), cursor)
       IN  /\ sent' = Append(sent, done.params)
           /\ cursor' = done.cursor
    /\ UNCHANGED <<type_, value, result, clientVars>>

FormatNext ==
    \E country \in {None, StrV("US")}, cursor_ \in {None, CursorRef},
       filter_ \in {BaseObj("RankingFilter", "all")} :
          Format(country, cursor_, filter_)

SpecFormat == FormatInit /\ [][FormatNext]_vars


(***************************************************************************)
(* Properties.                                                             *)
(***************************************************************************)
\* the exception class of what a call raised, "" if it raised nothing
raised(x) == IF IsRaise(x) THEN x.v.exc ELSE ""

\* a step that calls an endpoint: it leaves "idle" with a new call record
Calls(name) == pc = "idle" /\ call'.endpoint = name

\* C1: calling an endpoint whose required scope the client does not hold
\* raises InsufficientScopeError before the body runs: the call is over, no
\* request was made, session, token file and cache are as before; an
\* endpoint declared with scope None never raises InsufficientScopeError.
C1_ScopeCheck ==
    [][\A name \in EndpointNames :
         Calls(name) =>
            IF Endpoint(name).scope = NoScope
            THEN raised(outcome') # "InsufficientScopeError"
            ELSE Endpoint(name).scope \notin scopes =>
                    /\ raised(outcome') = "InsufficientScopeError"
                    /\ pc' = "idle"
                    /\ UNCHANGED <<nreq, ngrant, received, json_, session,
                                   token_file, cache>>]_vars

\* get_me is rejected for its scope by a client that has made requests
\* before and whose cache is filled
C1_Witness ==
    /\ pc = "idle"
    /\ call.endpoint = "get_me"
    /\ raised(outcome) = "InsufficientScopeError"
    /\ nreq > 0
    /\ cache # {}
\* C2: on a client-credentials client that holds the scope, a call of a
\* requires_user endpoint raises AccessDeniedError whatever its arguments
\* are: the body is not entered, no argument reaches it, nothing is sent.
C2_RequiresUser ==
    (/\ call # NoCall
     /\ Endpoint(call.endpoint).requires_user
     /\ grant = "client"
     /\ ~scope_missing(scopes, Endpoint(call.endpoint)))
        => /\ raised(outcome) = "AccessDeniedError"
           /\ pc = "idle"
           /\ received = None
           /\ nreq = 0

\* download_score(1, mode="osu") on a client-credentials client: `mode` is
\* not a parameter of download_score
C2_Witness ==
    /\ grant = "client"
    /\ call = [endpoint |-> "download_score", args |-> <<IntV(1)>>,
               kwargs |-> ("mode" :> StrV("osu"))]
    /\ raised(outcome) = "AccessDeniedError"
\* C3 as stated: within one call there is never a second reauthentication
\* nor a second retry, whatever the retried response is.
C3_Original == ngrant <= 1 /\ nreq <= 2

\* C3, amended: a call makes one request, and one more after each new
\* grant; the grant that follows a token expiry or an invalid refresh token
\* is followed by a further one only when the retried response is exactly
\* {"authentication": "basic"}, and the request made after that one is the
\* last: at most two grants and three requests in a call.  A token expiry
\* is retried only under the client-credentials grant.
C3_OneCycle ==
    /\ [](ngrant <= 2 /\ nreq <= ngrant + 1)
    /\ [][(ngrant' > ngrant /\ ngrant > 0)
             => (pc = "reauth2" /\ json_ = Basic /\ ngrant' = 2)]_vars
    /\ [][(pc = "retry2" /\ pc' # pc) => pc' \in {"check", "idle"}]_vars
    /\ [][pc' = "new_client_grant" => grant = "client"]_vars

\* a call that ended with an object after two grants and three requests:
\* the request after the first grant was answered {"authentication":
\* "basic"}
C3_Witness ==
    /\ pc = "idle"
    /\ ngrant = 2
    /\ nreq = 3
    /\ outcome.t = "obj"
\* the keys a record type declares: its attribute names and the wire names
\* of its Field annotations
declared(t) ==
    DOMAIN get_type_hints(t.n)
       \cup {get_type_hints(t.n)[a].n : a \in _fields(get_type_hints(t.n))}

\* the raw mapping x without the keys t does not declare
only_declared(t, x) == DictV([key \in DOMAIN x.v \cap declared(t) |-> x.v[key]])

\* a run that coerced a raw mapping to a record type
RecordRun == result # Pending /\ is_high_model_type(type_) /\ value.t = "dict"

\* C4: in lenient mode a raw mapping with undeclared keys is coerced
\* exactly as the mapping without them is (so it succeeds whenever that one
\* does), and the instance stores nothing under an undeclared key.
C4_LenientDrops ==
    (RecordRun /\ ~strict /\ DOMAIN value.v \ declared(type_) # {})
       => /\ result = _instantiate_type(FALSE, type_, only_declared(type_, value),
                                        None, "")
          /\ result.t = "obj" =>
                DOMAIN result.v.data \subseteq
                   DOMAIN get_type_hints(type_.n) \cup {"_api"}

\* the scenario's mapping with one more key, zzz, gives the scenario's
\* object
C4_Witness ==
    /\ ~strict
    /\ type_ = ModelT("RecordType")
    /\ value = Mapping([id |-> IntV(5), name |-> StrV("foo"),
                        nested |-> Mapping([id |-> IntV(6)]), zzz |-> IntV(1)])
    /\ result = Obj("RecordType",
                    [id |-> IntV(5), name |-> StrV("foo"), _api |-> Api,
                     nested |-> Obj("NestedType", [id |-> IntV(6), _api |-> Api])])
\* the raw key the attribute a of record type t is read from
wire(t, a) ==
    IF a \in _fields(get_type_hints(t.n)) THEN get_type_hints(t.n)[a].n ELSE a

\* the TypeError of strict mode: it names an undeclared key, the value
\* under it and the record type
NamesKey(r, t, x) ==
    /\ raised(r) = "TypeError"
    /\ r.v.msg.kind = "unexpected parameter"
    /\ \E key \in DOMAIN x.v \ declared(t) :
          r.v.msg.names = <<key, t.n>> /\ r.v.msg.val = x.v[key]

RECURSIVE carries(_, _, _)
\* some record of the payload x, read as type t0, carries a key its record
\* type does not declare; with in_unions, the records inside union-typed
\* values count when no candidate declares the key
carries(t0, x, in_unions) ==
    LET unwrap == is_optional(t0) /\ Len(get_args(t0)) = 2
        t == IF unwrap THEN get_args(t0)[1] ELSE t0
        args == SelectSeq(get_args(t), LAMBDA c : c # NoneType)
        hints == processed_hints(get_type_hints(t.n), TRUE)
    IN  IF is_high_model_type(t)
        THEN /\ x.t = "dict"
             /\ \/ DOMAIN x.v \ declared(t) # {}
                \/ \E a \in DOMAIN hints :
                      /\ wire(t, a) \in DOMAIN x.v
                      /\ carries(hints[a], x.v[wire(t, a)], in_unions)
        ELSE IF get_origin(t) = "list"
        THEN /\ x.t = "list"
             /\ \E i \in 1..Len(x.v) : carries(args[1], x.v[i], in_unions)
        ELSE IF get_origin(t) = "Union"
        THEN in_unions /\ \A i \in 1..Len(args) : carries(args[i], x, in_unions)
        ELSE FALSE

RECURSIVE strip(_, _, _)
\* the payload x, read as type t0, without the undeclared keys that
\* carries(t0, x, in_unions) looks for
strip(t0, x, in_unions) ==
    LET unwrap == is_optional(t0) /\ Len(get_args(t0)) = 2
        t == IF unwrap THEN get_args(t0)[1] ELSE t0
        args == SelectSeq(get_args(t), LAMBDA c : c # NoneType)
        hints == processed_hints(get_type_hints(t.n), TRUE)
    IN  IF is_high_model_type(t) /\ x.t = "dict"
        THEN DictV([key \in DOMAIN x.v \cap declared(t) |->
                      strip(hints[field_name(get_type_hints(t.n), key)],
                            x.v[key], in_unions)])
        ELSE IF get_origin(t) = "list" /\ x.t = "list"
        THEN ListV([i \in 1..Len(x.v) |-> strip(args[1], x.v[i], in_unions)])
        ELSE IF /\ get_origin(t) = "Union" /\ in_unions /\ x.t = "dict"
                /\ \A i \in 1..Len(args) : is_high_model_type(args[i])
        THEN DictV([key \in DOMAIN x.v
                               \cap UNION {declared(args[i]) : i \in 1..Len(args)} |->
                      x.v[key]])
        ELSE x

\* the undeclared keys are the only defect of the payload: without them it
\* is coerced in strict mode
OnlyDefect(in_unions) ==
    /\ RecordRun
    /\ strict
    /\ carries(type_, value, in_unions)
    /\ ~IsRaise(_instantiate_type(TRUE, type_, strip(type_, value, in_unions),
                                  None, ""))

\* C5 as stated: in strict mode a payload in which any record, inside a
\* union-typed field included, carries an undeclared key (and which has no
\* other defect) fails with a TypeError that names an undeclared key of a
\* record type.
C5_Original ==
    OnlyDefect(TRUE)
       => /\ raised(result) = "TypeError"
          /\ result.v.msg.kind = "unexpected parameter"

\* C5, amended: in strict mode (a) a payload in which a record reached
\* without passing a union-typed field carries an undeclared key is never
\* coerced to an object: the call raises; (b) when the top-level record
\* carries one, the call raises the TypeError that names the key, its
\* value and the record type; (c) every "unexpected parameter" TypeError
\* names a record type and a key that type does not declare; (d) a record
\* inside a union-typed value only fails its candidates: when every
\* candidate is a record type that does not declare the key, the call
\* raises the ValueError of the union, with one reason per candidate; (e)
\* when the undeclared keys of records outside union-typed fields are the
\* payload's only defect, the call raises the TypeError of (c).
C5_StrictRejects ==
    /\ OnlyDefect(FALSE)
          => /\ raised(result) = "TypeError"
             /\ result.v.msg.kind = "unexpected parameter"
    /\ (RecordRun /\ strict /\ carries(type_, value, FALSE)) => IsRaise(result)
    /\ (RecordRun /\ strict /\ DOMAIN value.v \ declared(type_) # {})
          => NamesKey(result, type_, value)
    /\ (result # Pending /\ raised(result) = "TypeError"
           /\ result.v.msg.kind = "unexpected parameter")
          => /\ strict
             /\ result.v.msg.names[2] \in ModelNames
             /\ result.v.msg.names[1] \notin declared(ModelT(result.v.msg.names[2]))
    /\ (result # Pending /\ strict /\ type_.k = "Union" /\ value.t = "dict"
           /\ \A i \in 1..Len(type_.a) :
                 /\ is_high_model_type(type_.a[i])
                 /\ DOMAIN value.v \ declared(type_.a[i]) # {})
          => /\ raised(result) = "ValueError"
             /\ Len(result.v.msg.reasons) = Len(type_.a)
             /\ \A i \in 1..Len(type_.a) :
                   result.v.msg.reasons[i].kind = "unexpected parameter"

\* strict mode, the scenario's mapping with the undeclared key zzz in its
\* nested record: the TypeError names zzz, its value 1 and NestedType
C5_Witness ==
    /\ strict
    /\ type_ = ModelT("RecordType")
    /\ value = Mapping([id |-> IntV(5), name |-> StrV("foo"),
                        nested |-> Mapping([id |-> IntV(6), zzz |-> IntV(1)])])
    /\ result = Raise("TypeError",
                      Msg("unexpected parameter", <<"zzz", "NestedType">>,
                          IntV(1), <<>>))
\* the optional attributes of record type t that the raw mapping x omits
omitted(t, x) ==
    {a \in DOMAIN get_type_hints(t.n) :
        /\ is_optional(get_type_hints(t.n)[a])
        /\ a \notin DOMAIN x.v
        /\ wire(t, a) \notin DOMAIN x.v}

\* the raw mapping x has a value for every attribute of t that is not
\* optional, and no undeclared key
complete(t, x) ==
    /\ DOMAIN x.v \subseteq declared(t)
    /\ \A a \in DOMAIN get_type_hints(t.n) :
          is_optional(get_type_hints(t.n)[a])
             \/ a \in DOMAIN x.v \/ wire(t, a) \in DOMAIN x.v

\* C6: a raw mapping that omits optional attributes, declared plainly or
\* through a Field with a wire name, is instantiated (it does not raise
\* when the attributes that are not optional are there), and every
\* instance made from it, by the instantiator or by the whole coercion, has
\* None for each omitted attribute.
C6_OmittedOptional ==
    (RecordRun /\ omitted(type_, value) # {})
       => LET made == _instantiate(strict, type_, value)
          IN  /\ complete(type_, value) => made.t = "obj"
              /\ made.t = "obj" =>
                    \A a \in omitted(type_, value) :
                       a \in DOMAIN made.v.data /\ made.v.data[a] = None
              /\ result.t = "obj" =>
                    \A a \in omitted(type_, value) :
                       a \in DOMAIN result.v.data /\ result.v.data[a] = None

\* Covers from a mapping without "cover@2x", the wire name of cover_2x
C6_Witness ==
    /\ type_ = ModelT("Covers")
    /\ value = Mapping([cover |-> StrV("c")])
    /\ result = Obj("Covers", [cover |-> StrV("c"), cover_2x |-> None, _api |-> Api])
\* a run that coerced a value to a union of candidates (an Optional[X] is
\* unwrapped to X and is no union)
UnionRun ==
    /\ result # Pending
    /\ type_.k = "Union"
    /\ ~(is_optional(type_) /\ Len(type_.a) = 2)

\* the candidates of the union type t, in declared order
candidates(t) == SelectSeq(t.a, LAMBDA c : c # NoneType)

\* what candidate i of the union makes of the value on its own
alone(i) == _instantiate_type(strict, candidates(type_)[i], value, None, "")

\* C7: union resolution returns what its first candidate, in declared
\* order, that completes without raising returns.
C7_FirstCandidate ==
    UnionRun =>
       \A i \in 1..Len(candidates(type_)) :
          (~IsRaise(alone(i)) /\ \A j \in 1..(i - 1) : IsRaise(alone(j)))
             => result = alone(i)

\* C8: the error of a failed union resolution carries one failure reason
\* for every candidate of the union.
C8_AllReasons ==
    (UnionRun /\ raised(result) = "ValueError"
        /\ result.v.msg.kind = "Failed to satisfy union")
       => Len(result.v.msg.reasons) = Len(candidates(type_))
\* the argument the call passes for parameter p, positionally or by
\* keyword; Absent when it passes none
passed(c, p) ==
    LET names == arg_names(Endpoint(c.endpoint))
        at == {i \in 1..Len(c.args) : i <= Len(names) /\ names[i] = p}
    IN  IF at # {} THEN c.args[CHOOSE i \in at : TRUE]
        ELSE IF p \in DOMAIN c.kwargs THEN c.kwargs[p]
        ELSE Absent

\* the parameters declared "integer id or rich object" and, for each, the
\* identifier of a rich object of a matching kind
IdParams ==
    {<<"room", "room_id">>, <<"match", "match_id">>, <<"user", "user">>,
     <<"beatmapset", "beatmapset_id">>, <<"beatmapset", "beatmap_id">>}

identifier(p, x) ==
    CASE p = "room_id" /\ isinstance_of(x, "Room") -> x.v.data.id
      [] p = "match_id" /\ isinstance_of(x, "Match") -> x.v.data.id
      [] p = "user" /\ isinstance_of(x, "UserCompact") -> x.v.data.id
      [] p = "beatmap_id" /\ isinstance_of(x, "BeatmapCompact") -> x.v.data.id
      [] p = "beatmapset_id" /\ isinstance_of(x, "BeatmapCompact") ->
            x.v.data.beatmapset_id
      [] p = "beatmapset_id" /\ isinstance_of(x, "BeatmapsetCompact") -> x.v.data.id
      [] OTHER -> Absent

\* C9: when the body of an endpoint is entered, every id-or-object
\* parameter that was passed a rich object of the matching kind,
\* positionally or by keyword, holds the object's identifier, whatever the
\* identifier is.
C9_IdNormalized ==
    pc = "body" =>
       \A q \in IdParams :
          (call.endpoint = q[1]
              /\ identifier(q[2], passed(call, q[2])) # Absent)
             => received.v[q[2]] = identifier(q[2], passed(call, q[2]))

\* C10: when the body of beatmapset is entered, a BeatmapCompact passed as
\* beatmap_id has been replaced by its id, a BeatmapCompact passed as
\* beatmapset_id by its beatmapset_id, a BeatmapsetCompact passed as
\* beatmapset_id by its id.
C10_AttributeByKind ==
    (pc = "body" /\ call.endpoint = "beatmapset") =>
       /\ isinstance_of(passed(call, "beatmap_id"), "BeatmapCompact")
             => received.v["beatmap_id"] = passed(call, "beatmap_id").v.data.id
       /\ isinstance_of(passed(call, "beatmapset_id"), "BeatmapCompact")
             => received.v["beatmapset_id"] =
                   passed(call, "beatmapset_id").v.data.beatmapset_id
       /\ isinstance_of(passed(call, "beatmapset_id"), "BeatmapsetCompact")
             => received.v["beatmapset_id"] = passed(call, "beatmapset_id").v.data.id
\* the values a call passes for parameter p, by position and by keyword
given(c, p) ==
    LET names == arg_names(Endpoint(c.endpoint))
    IN  {c.args[i] : i \in {j \in 1..Len(c.args) : j <= Len(names) /\ names[j] = p}}
          \cup {c.kwargs[key] : key \in {k \in DOMAIN c.kwargs : k = p}}

\* C11: when the body of an endpoint is entered, every parameter declared
\* as a union whose first member is a base model type, Optional or not,
\* that was passed a value holds an instance of that base model, made from
\* the raw string or int passed, unless the parameter is optional and None
\* was passed, which stays None; and a call ends with the base model's
\* ValueError only when its constructor refuses a value passed.
C11_BaseModelConverted ==
    LET e == Endpoint(call.endpoint)
        first(p) == get_args(annotations(e)[p])[1]
        based == {p \in DOMAIN annotations(e) :
                    /\ get_origin(annotations(e)[p]) = "Union"
                    /\ is_base_model_type(first(p))
                    /\ passed(call, p) # Absent}
    IN  call # NoCall =>
          /\ pc = "body" =>
                \A p \in based :
                   IF passed(call, p) = None /\ is_optional(annotations(e)[p])
                   THEN received.v[p] = None
                   ELSE /\ received.v[p].t = "base"
                        /\ received.v[p].v.cls = first(p).n
                        /\ passed(call, p).t \in {"str", "int"}
                              => received.v[p].v.value = passed(call, p).v
          /\ (raised(outcome) = "ValueError" /\ outcome.v.msg.kind = "is not a valid")
                => \E p \in DOMAIN annotations(e) : \E x \in given(call, p) :
                      /\ get_origin(annotations(e)[p]) = "Union"
                      /\ is_base_model_type(first(p))
                      /\ ~(x = None /\ is_optional(annotations(e)[p]))
                      /\ IsRaise(construct_base(first(p), x))

\* beatmap_attributes(1, mods=0) reaches the body with Mod(0), and
\* score_mode("osu", score_id=1) with GameMode("osu")
C11_Witness ==
    /\ pc = "body"
    /\ \/ /\ call = [endpoint |-> "score_mode", args |-> <<StrV("osu")>>,
                     kwargs |-> ("score_id" :> IntV(1))]
          /\ received.v["mode"] = BaseObj("GameMode", "osu")
       \/ /\ call = [endpoint |-> "beatmap_attributes", args |-> <<IntV(1)>>,
                     kwargs |-> ("mods" :> IntV(0))]
          /\ received.v["mods"] = BaseObj("Mod", 0)
RECURSIVE of_type(_, _)
\* the raw value x has exactly the declared type t: a primitive of that very
\* type, or, for a record type, a mapping of exactly its attributes, each
\* of its declared type
of_type(x, t) ==
    IF is_primitive_type(t) THEN x.t = t.n
    ELSE IF is_high_model_type(t)
    THEN /\ x.t = "dict"
         /\ DOMAIN x.v = DOMAIN get_type_hints(t.n)
         /\ \A a \in DOMAIN x.v : of_type(x.v[a], get_type_hints(t.n)[a])
    ELSE FALSE

RECURSIVE image(_, _)
\* the Record Instance whose attributes equal the values of the mapping x,
\* a mapping among them standing for the instance with its values
image(t, x) ==
    IF is_high_model_type(t)
    THEN Obj(t.n, [a \in DOMAIN x.v \cup {"_api"} |->
                     IF a = "_api" THEN Api
                     ELSE image(get_type_hints(t.n)[a], x.v[a])])
    ELSE x

\* the record types that declare required attributes only
only_required ==
    {name \in ModelNames :
        \A a \in DOMAIN get_type_hints(name) :
           /\ ~is_optional(get_type_hints(name)[a])
           /\ a \notin _fields(get_type_hints(name))
           /\ get_origin(get_type_hints(name)[a]) # "Union"}

\* C12: for a record type that declares required attributes only, a raw
\* mapping with exactly those attributes, each a value of its declared
\* type, is coerced without error, in strict and in lenient mode, to the
\* Record Instance whose every attribute equals the input value.
C12_RequiredRecord ==
    (RecordRun /\ type_.n \in only_required /\ of_type(value, type_))
       => /\ ~IsRaise(result)
          /\ result = image(type_, value)
          /\ \A a \in {"count", "mode", "ratio", "ranked", "id"} \cap DOMAIN value.v :
                result.v.data[a] = value.v[a]

\* Stats(count=5, mode="osu", ratio=5.0, ranked=False, nested={"id": 6}) has
\* been coerced
C12_Witness ==
    /\ RecordRun
    /\ type_ = ModelT("Stats")
    /\ value = DictV([count |-> IntV(5), mode |-> StrV("osu"), ratio |-> FloatV(5),
                      ranked |-> BoolV(FALSE), nested |-> DictV([id |-> IntV(6)])])
    /\ result.t = "obj"
    /\ result.v.data.count = IntV(5)
    /\ result.v.data.nested.v.data.id = IntV(6)
RECURSIVE typed(_, _)
\* x, the result for a value declared as t, holds no raw fragment where a
\* record is declared: under a record type it is an instance of that type
\* whose attributes are typed the same way, under an Optional record None
\* or such an instance, under a list of records a list of such instances
typed(t, x) ==
    LET args == get_args(t)
    IN  IF is_optional(t) /\ Len(args) = 2
        THEN x = None \/ typed(args[1], x)
        ELSE IF is_high_model_type(t)
        THEN /\ x.t = "obj"
             /\ x.v.cls = t.n
             /\ \A a \in DOMAIN x.v.data \ {"_api"} :
                   typed(processed_hints(get_type_hints(t.n), TRUE)[a], x.v.data[a])
        ELSE IF get_origin(t) = "list" /\ is_high_model_type(args[1])
        THEN /\ x.t = "list"
             /\ \A i \in 1..Len(x.v) : typed(args[1], x.v[i])
        ELSE TRUE

\* C13: after a coercion that succeeded in lenient mode, every attribute
\* declared as a record, an Optional record or a list of records holds
\* None (when Optional) or instances of the declared record, and so do the
\* attributes of those instances, at every depth.
C13_NoRawFragment ==
    (result # Pending /\ ~strict /\ ~IsRaise(result)
        /\ (is_high_model_type(type_) \/ get_origin(type_) \in {"list", "Union"}))
       => typed(type_, result)

\* {"id": 5, "name": "foo", "nested": {"id": 6}} gives nested.id = 6 on a
\* NestedType; an Outer holds a RecordType holding a NestedType, and a list
\* of two Other
C13_Witness ==
    /\ result # Pending /\ ~strict /\ result.t = "obj"
    /\ \/ /\ type_ = ModelT("RecordType")
          /\ value = DictV([id |-> IntV(5), name |-> StrV("foo"),
                            nested |-> DictV([id |-> IntV(6)])])
          /\ result.v.data.nested.t = "obj"
          /\ result.v.data.nested.v.cls = "NestedType"
          /\ result.v.data.nested.v.data.id = IntV(6)
       \/ /\ type_ = ModelT("Outer")
          /\ result.v.data.record.v.data.nested.t = "obj"
          /\ result.v.data.record.v.data.nested.v.data.id = IntV(6)
          /\ Len(result.v.data.others.v) = 2
          /\ result.v.data.others.v[2].v.cls = "Other"
\* the cursor[...] parameters among the formatted params p
cursor_entries(p) ==
    [k \in DOMAIN p \cap {"cursor[" \o c \o "]" : c \in CursorKeys} |-> p[k]]

\* C14: formatting params that hold the Cursor removes the key "cursor" and
\* puts one cursor[key] parameter per field of the Cursor, with the
\* field's formatted value; it leaves the Cursor as it was given; and the
\* cursor parameters equal those of every earlier request made with the
\* same Cursor object.
C14_CursorFormatting ==
    [][\A country \in {None, StrV("US")}, filter_ \in {BaseObj("RankingFilter", "all")} :
          Format(country, CursorRef, filter_) =>
             LET new == sent'[Len(sent')]
             IN  /\ "cursor" \notin DOMAIN new
                 /\ DOMAIN cursor_entries(new)
                       = {"cursor[" \o c \o "]" : c \in DOMAIN cursor}
                 /\ \A c \in DOMAIN cursor :
                       new["cursor[" \o c \o "]"] = _format_value(cursor[c])
                 /\ cursor' = cursor
                 /\ \A i \in 1..Len(sent) :
                       "cursor" \notin DOMAIN sent[i]
                          => cursor_entries(sent[i]) = cursor_entries(new)]_vars
\* the step of _request from the response check to the end of the call
Checked == pc = "check" /\ pc' = "idle"

\* the call ends with the ValueError that quotes the server's message and
\* the url, and no type hints were looked up: nothing was deserialized
ErrorQuoted ==
    /\ raised(outcome') = "ValueError"
    /\ outcome'.v.msg.kind = "api returned an error"
    /\ outcome'.v.msg.val = json_.v["error"]
    /\ outcome'.v.msg.names = <<"url">>
    /\ cache' = cache

C16_NoGrantWithPassedToken ==
    /\ [][access_token_passed
             => /\ session' = session
                /\ token_file' = token_file
                /\ ngrant' <= ngrant]_vars
    /\ [][(access_token_passed /\ pc' # pc
             /\ pc \in {"new_client_grant", "reauth1", "reauth2"})
             => raised(outcome') \in {"ReauthenticationRequired", "TokenExpiredError",
                                      "OAuth2Error"}]_vars
    /\ [](raised(outcome) = "ReauthenticationRequired" => access_token_passed)
\* C17: a value other than None coerced against a primitive type is
\* returned, after the declared conversion, when its runtime type is exactly
\* the declared one, and raises TypeError when it is of any other type, in
\* strict and in lenient mode.
C17_ExactPrimitive ==
    (result # Pending /\ type_ \in {int, float, str, bool} /\ value # None)
       => IF convert_primitive_type(value, type_).t = type_.n
          THEN result = convert_primitive_type(value, type_)
          ELSE raised(result) = "TypeError"
\* the error of the instantiator, or of the coercion of an attribute it
\* stored, is the error of the coercion of the record
PropagatesInRecord ==
    RecordRun =>
       LET made == _instantiate(strict, type_, value)
           type_hints == processed_hints(get_type_hints(type_.n), TRUE)
           attrs == IF IsRaise(made) THEN {}
                    ELSE {a \in DOMAIN made.v.data \ {"_api"} :
                            ~(made.v.data[a] = None /\ is_optional(type_hints[a]))}
           attr(a) == _instantiate_type(strict, type_hints[a], made.v.data[a], made, a)
       IN  /\ IsRaise(made) => result = made
           /\ (\E a \in attrs : IsRaise(attr(a)))
                 => \E a \in attrs : result = attr(a) /\ IsRaise(result)

\* the error of the coercion of an entry is the error of the coercion of
\* the list of records
PropagatesInList ==
    (result # Pending /\ type_ = list(ModelT("NestedType")) /\ value.t = "list")
       => LET entry(i) == _instantiate_type(strict, ModelT("NestedType"), value.v[i],
                                            None, "")
          IN  (\E i \in 1..Len(value.v) : IsRaise(entry(i)))
                 => \E i \in 1..Len(value.v) : result = entry(i) /\ IsRaise(result)

\* candidate i is attempted: every candidate before it raised
attempted(i) == \A j \in 1..(i - 1) : IsRaise(alone(j))

RECURSIVE raw_before(_)
\* the caller's raw value when candidate i of the union is reached
raw_before(i) ==
    IF i = 1 THEN value
    ELSE attempt_on_copy(strict, candidates(type_)[i - 1], raw_before(i - 1)).value

\* C19: in a union resolution every attempted candidate is given a value
\* equal to the original raw value, whatever the failed candidates before
\* it did to the value they were given, and the caller's raw value is as it
\* was after every failed attempt; so the union returns what its first
\* candidate that returns an object makes of the original raw value.
C19_OwnCopy ==
    UnionRun =>
       \A i \in 1..Len(candidates(type_)) :
          attempted(i) =>
             /\ raw_before(i) = value
             /\ attempt_on_copy(strict, candidates(type_)[i], raw_before(i)).seen = value
             /\ IsRaise(alone(i)) =>
                   attempt_on_copy(strict, candidates(type_)[i], raw_before(i)).value
                      = value
             /\ (~IsRaise(alone(i)) /\ alone(i) # None) => result = alone(i)

\* Union[Other, NestedType] and {"id": "x"}: Other filled tag = None in
\* the mapping it was given and raised on id; NestedType was attempted and
\* raised on id as well
C19_Witness ==
    /\ UnionRun
    /\ type_ = Union(<<ModelT("Other"), ModelT("NestedType")>>)
    /\ value = Mapping([id |-> StrV("x")])
    /\ mutated(strict, ModelT("Other"), value) = Mapping([id |-> StrV("x"), tag |-> None])
    /\ IsRaise(alone(1))
    /\ raised(result) = "ValueError"
    /\ result.v.msg.reasons = <<alone(1).v.msg, alone(2).v.msg>>
\* the list type an annotation declares, Optional unwrapped
list_of(t) ==
    IF is_optional(t) /\ Len(get_args(t)) = 2 THEN get_args(t)[1] ELSE t

\* every entry of the raw list x can be coerced to the type elem
coercible(elem, x) ==
    \A i \in 1..Len(x.v) : ~IsRaise(_instantiate_type(strict, elem, x.v[i], None, ""))

\* the list of the coercions of the entries of the raw list x to elem
elementwise(elem, x) ==
    ListV([i \in 1..Len(x.v) |-> _instantiate_type(strict, elem, x.v[i], None, "")])

\* C20: a raw list coerced against a declared list type, whatever the
\* element type (record, base model, primitive, union), gives the list, of
\* the same length and order, of the coercions of its entries to the
\* element type, and an error when an entry cannot be coerced; so does a
\* raw list under an attribute declared as a list.
C20_ListElementwise ==
    /\ (result # Pending /\ get_origin(type_) = "list" /\ value.t = "list")
          => IF coercible(get_args(type_)[1], value)
             THEN result = elementwise(get_args(type_)[1], value)
             ELSE IsRaise(result)
    /\ (RecordRun /\ ~IsRaise(result))
          => \A a \in DOMAIN get_type_hints(type_.n) \cap DOMAIN value.v :
                LET t == list_of(get_type_hints(type_.n)[a])
                IN  (get_origin(t) = "list" /\ value.v[a].t = "list")
                       => /\ coercible(get_args(t)[1], value.v[a])
                          /\ result.v.data[a] = elementwise(get_args(t)[1], value.v[a])
\* the declared type t, Optional unwrapped, is in none of the classes
\* primitive, base model, list, union, record
unclassifiable(t) == list_of(t).k = "other"

\* C21: coercing a value against a declared type that is in none of the
\* classes ends with an error, at the top level and for an attribute of a
\* record: the coercion of a record that has a value under such an
\* attribute never returns an instance.
C21_UnclassifiableFatal ==
    /\ (result # Pending /\ unclassifiable(type_) /\ value # None)
          => IsRaise(result)
    /\ RecordRun =>
          \A a \in DOMAIN get_type_hints(type_.n) \cap DOMAIN value.v :
             (unclassifiable(get_type_hints(type_.n)[a]) /\ value.v[a] # None)
                => IsRaise(result)
\* C22: the TypeError of a primitive type mismatch names the expected
\* type and the actual type, for a top-level value as for an attribute, and
\* the attribute when there is one.
C22_MismatchMessage ==
    /\ (result # Pending /\ is_primitive_type(list_of(type_))
           /\ raised(result) = "TypeError")
          => /\ result.v.msg.kind = "expected type"
             /\ result.v.msg.names[1] = list_of(type_).n
             /\ result.v.msg.names[2] = convert_primitive_type(value, list_of(type_)).t
    /\ (RecordRun /\ raised(result) = "TypeError"
           /\ result.v.msg.kind = "expected type")
          => /\ Len(result.v.msg.names) = 3
             /\ result.v.msg.names[1] \in {"int", "float", "str", "bool"}
             /\ result.v.msg.names[2] # result.v.msg.names[1]
             /\ result.v.msg.names[3] # ""
    /\ (RecordRun /\ raised(result) = "TypeError") => result.v.msg # EmptyMsg
\* the attributes of the record type t that are declared with a primitive
\* type, Optional or not, under which the raw mapping x carries a null
null_primitives(t, x, optional) ==
    LET types == processed_hints(get_type_hints(t.n), TRUE)
    IN  {a \in DOMAIN types \cap DOMAIN x.v :
           /\ x.v[a] = None
           /\ is_primitive_type(list_of(types[a]))
           /\ is_optional(types[a]) = optional}

\* the attributes the record types declare with an Optional primitive type
optional_primitives ==
    UNION {{a \in DOMAIN get_type_hints(name) :
              LET types == processed_hints(get_type_hints(name), TRUE)
              IN  is_optional(types[a]) /\ is_primitive_type(list_of(types[a]))} :
           name \in ModelNames}

\* C23: in lenient mode a null under a primitive attribute that is not
\* optional is not checked: no TypeError is ever raised for a null, and the
\* instance has None for the attribute.  In strict mode such a null makes
\* the coercion of the record raise a TypeError.  A null under an optional
\* primitive attribute stays None in both modes and raises nothing.
C23_NullByMode ==
    RecordRun =>
       /\ (~strict /\ raised(result) = "TypeError"
              /\ result.v.msg.kind = "expected type")
             => result.v.msg.val # None
       /\ (~strict /\ ~IsRaise(result))
             => \A a \in null_primitives(type_, value, FALSE) :
                   result.v.data[a] = None
       /\ (strict /\ null_primitives(type_, value, FALSE) # {})
             => raised(result) = "TypeError"
       /\ ~IsRaise(result)
             => \A a \in null_primitives(type_, value, TRUE) :
                   result.v.data[a] = None
       /\ (raised(result) = "TypeError" /\ result.v.msg.kind = "expected type"
              /\ result.v.msg.val = None)
             => /\ strict
                /\ result.v.msg.names[3] \notin optional_primitives

\* lenient, RecordType and {"id": 5, "name": null}: the instance has
\* name = None; strict, the same payload: TypeError for name
C23_Witness ==
    /\ RecordRun
    /\ type_ = ModelT("RecordType")
    /\ value = Mapping([id |-> IntV(5), name |-> None])
    /\ IF strict
       THEN raised(result) = "TypeError" /\ result.v.msg.names = <<"str", "NoneType", "name">>
       ELSE result = Obj("RecordType", [id |-> IntV(5), name |-> None,
                                        nested |-> None, _api |-> Api])
Maximum(S) == CHOOSE m \in S : \A o \in S : o <= m

RECURSIVE calls(_, _, _, _)
\* an attribute walk that hands the whole mapping to every attribute
calls_of_mapping(strict_, t, x, n) ==
    LET types == processed_hints(get_type_hints(t.n), TRUE)
    IN  UNION {{<<n + 1, t, x, types[a], x>>}
                  \cup calls(strict_, types[a], x, n + 1) : a \in DOMAIN types}

\* the _instantiate_type calls _resolve_annotations makes for the instance
\* made of the mapping x under the model class t, each <<level, type and
\* value of the frame that works on x, type and value of the call>>, and
\* the calls below them; attributes are visited up to the first that raises
calls_of_attributes(strict_, t, x, n) ==
    LET made == _instantiate(strict_, t, x)
        types == processed_hints(get_type_hints(t.n), TRUE)
        data == made.v.data
        order == IF IsRaise(made) THEN <<>>
                 ELSE SetToSeq({a \in DOMAIN data \ {"_api"} :
                                  ~(data[a] = None /\ is_optional(types[a]))})
        attr(a) == _instantiate_type(strict_, types[a], data[a], made, a)
        visited == {order[i] : i \in {j \in 1..Len(order) :
                       \A h \in 1..(j - 1) : ~IsRaise(attr(order[h]))}}
    IN  UNION {{<<n + 1, t, x, types[a], data[a]>>}
                  \cup calls(strict_, types[a], data[a], n + 1) : a \in visited}

\* the recursive calls made below the frame _instantiate_type(t0, x) at
\* recursion level n
calls(strict_, t0, x, n) ==
    LET unwrap == is_optional(t0) /\ Len(get_args(t0)) = 2
        t == IF unwrap THEN get_args(t0)[1] ELSE t0
        origin == get_origin(t)
        args == IF is_optional(t0) /\ ~unwrap
                THEN SelectSeq(get_args(t0), LAMBDA c : c # NoneType)
                ELSE get_args(t)
        done(i) == ~IsRaise(_instantiate_type(strict_, args[i], x, None, ""))
        entry(i) == _instantiate_type(strict_, args[1], iterate(x)[i], None, "")
    IN  IF is_primitive_type(t) \/ is_base_model_type(t) THEN {}
        ELSE IF origin = "list" /\ is_model_type(args[1])
        THEN IF ~iterable(x) \/ is_base_model_type(args[1]) THEN {}
             ELSE UNION {calls_of_attributes(strict_, args[1], iterate(x)[i], n) :
                         i \in {j \in 1..Len(iterate(x)) :
                                  \A h \in 1..(j - 1) : ~IsRaise(entry(h))}}
        ELSE IF origin = "Union"
        THEN UNION {{<<n + 1, t0, x, args[i], x>>}
                       \cup calls(strict_, args[i], x, n + 1) :
                    i \in {j \in 1..Len(args) : \A h \in 1..(j - 1) : ~done(h)}}
        ELSE IF ~is_model_type(t) THEN {}
        ELSE calls_of_attributes(strict_, t, x, n)

RECURSIVE nesting(_)
\* the nesting depth of a raw value: 0 for a scalar, one more than its
\* deepest entry for a list or a mapping
nesting(x) ==
    IF x.t = "list"
    THEN 1 + Maximum({0} \cup {nesting(x.v[i]) : i \in 1..Len(x.v)})
    ELSE IF x.t = "dict"
    THEN 1 + Maximum({0} \cup {nesting(x.v[a]) : a \in DOMAIN x.v})
    ELSE 0

RECURSIVE parts(_)
\* the values nested in a raw value, at any depth
parts(x) ==
    LET below == IF x.t = "list" THEN {x.v[i] : i \in 1..Len(x.v)}
                 ELSE IF x.t = "dict" THEN {x.v[a] : a \in DOMAIN x.v}
                 ELSE {}
    IN  below \cup UNION {parts(y) : y \in below}

\* the recursive calls of the run, the top-level call being level 0
recursion == calls(strict, type_, value, 0)
\* the deepest level of recursion the run reaches
recursion_depth == Maximum({0} \cup {c[1] : c \in recursion})
\* a call that is handed the value of its caller and not a part of it
same_value(c) == c[5] = c[3]
\* a call a Union makes for one of its candidates: the candidate is given
\* the (copied) value of the union itself and is not a Union
candidate_call(c) ==
    /\ same_value(c)
    /\ get_origin(c[2]) = "Union"
    /\ get_origin(c[4]) # "Union"

\* C25: every coercion ends with a result or an error, and its recursion is
\* bounded by the payload: every recursive call is made either on a value
\* nested in the value of the calling frame, or by a Union on the same
\* value for a candidate that is not a Union; hence a call at level n has
\* left at most n/2 levels of nesting unexplored above it and the recursion
\* is at most 2 * nesting + 1 calls deep.
C25_BoundedRecursion ==
    result # Pending =>
       /\ \A c \in recursion : c[5] \in parts(c[3]) \/ candidate_call(c)
       /\ \A c \in recursion :
             c[1] <= 2 * (nesting(value) - nesting(c[5])) + 1
       /\ recursion_depth <= 2 * nesting(value) + 1

\* a finished run three calls deep that went through a Union and through
\* the attributes of a nested mapping
C25_Witness ==
    /\ result # Pending
    /\ recursion_depth >= 3
    /\ \E c \in recursion : candidate_call(c)
    /\ \E c \in recursion : c[5] \in parts(c[3]) /\ c[1] >= 2

\* C25 as stated: every recursive call is made on a value strictly nested
\* in the value of its caller, and the recursion is no deeper than the
\* payload is nested.
C25_Original ==
    result # Pending =>
       /\ \A c \in recursion : c[5] \in parts(c[3])
       /\ recursion_depth <= nesting(value)
\* C26: a request starts by emptying the type-hint cache, before anything
\* is sent; the cache stays empty until the response is coerced, and when
\* the request ends it holds the classes looked up while this response
\* was coerced and nothing else, whatever earlier requests had left in it.
C26_FreshCache ==
    /\ [][(pc = "idle" /\ pc' # "idle")
             => (cache' = {} /\ nreq' = 0 /\ outcome' = Pending)]_vars
    /\ [](pc # "idle" => cache = {})
    /\ [][(pc = "check" /\ pc' = "idle")
             => cache' \subseteq hinted(strict, Endpoint(call.endpoint).returns,
                                        json_)]_vars
    /\ [][pc' = pc => cache' = cache]_vars

\* a request under way, its cache empty, its response received
C26_Witness ==
    /\ pc = "check"
    /\ nreq >= 1
    /\ cache = {}
    /\ json_.t = "dict"
    /\ "id" \in DOMAIN json_.v
    /\ hinted(strict, Endpoint(call.endpoint).returns, json_) # {}
(***************************************************************************)
(* The derivation of type hints.                                           *)
(***************************************************************************)
RECURSIVE Sum(_, _)
\* the sum of f over the set S
Sum(f, S) ==
    IF S = {} THEN 0
    ELSE LET a == CHOOSE a \in S : TRUE IN f[a] + Sum(f, S \ {a})

RECURSIVE derived(_, _, _, _)
\* how often get_type_hints(cls) is computed for one instance of the model
\* class t made of x: _get_type_hints computes on every lookup (the cache
\* is written and never read), once under _instantiate and once more under
\* _resolve_annotations, and then for what the attributes hold
derived_for_instance(strict_, t, x, cls) ==
    LET made == _instantiate(strict_, t, x)
        types == processed_hints(get_type_hints(t.n), TRUE)
        data == made.v.data
        own == IF t.n = cls THEN 1 ELSE 0
        order == IF IsRaise(made) THEN <<>>
                 ELSE SetToSeq({a \in DOMAIN data \ {"_api"} :
                                  ~(data[a] = None /\ is_optional(types[a]))})
        attr(a) == _instantiate_type(strict_, types[a], data[a], made, a)
        visited == {order[i] : i \in {j \in 1..Len(order) :
                       \A h \in 1..(j - 1) : ~IsRaise(attr(order[h]))}}
    IN  IF IsRaise(made) THEN own
        ELSE own + own
               + Sum([a \in visited |-> derived(strict_, types[a], data[a], cls)],
                     visited)

\* how often get_type_hints(cls) is computed during _instantiate_type(t0, x)
derived(strict_, t0, x, cls) ==
    LET unwrap == is_optional(t0) /\ Len(get_args(t0)) = 2
        t == IF unwrap THEN get_args(t0)[1] ELSE t0
        origin == get_origin(t)
        args == IF is_optional(t0) /\ ~unwrap
                THEN SelectSeq(get_args(t0), LAMBDA c : c # NoneType)
                ELSE get_args(t)
        done(i) == ~IsRaise(_instantiate_type(strict_, args[i], x, None, ""))
        entry(i) == _instantiate_type(strict_, args[1], iterate(x)[i], None, "")
        entries == {j \in 1..Len(iterate(x)) :
                      \A h \in 1..(j - 1) : ~IsRaise(entry(h))}
        tried == {j \in 1..Len(args) : \A h \in 1..(j - 1) : ~done(h)}
    IN  IF is_primitive_type(t) \/ is_base_model_type(t) THEN 0
        ELSE IF origin = "list" /\ is_model_type(args[1])
        THEN IF ~iterable(x) \/ is_base_model_type(args[1]) THEN 0
             ELSE Sum([i \in entries |->
                         derived_for_instance(strict_, args[1], iterate(x)[i], cls)],
                      entries)
        ELSE IF origin = "Union"
        THEN Sum([i \in tried |-> derived(strict_, args[i], x, cls)], tried)
        ELSE IF ~is_model_type(t) THEN 0
        ELSE derived_for_instance(strict_, t, x, cls)

\* C27: in one deserialization call the type hints of a class are computed
\* at most once, however often the class is looked up.
C27_DerivedOnce ==
    result # Pending =>
       \A cls \in hinted(strict, type_, value) :
          derived(strict, type_, value, cls) <= 1
\* C28: a call sends at most three requests and obtains at most two
\* grants, each retry counted once; the response {"authentication":
\* "basic"} reaches the response check only after a retry that followed a
\* new grant, and there it ends the call with a ValueError, with no further
\* request and no further grant.
C28_BoundedRetries ==
    /\ [](nreq <= 3 /\ ngrant <= 2)
    /\ [][nreq' \in {0, nreq, nreq + 1} /\ ngrant' \in {0, ngrant, ngrant + 1}]_vars
    /\ [][(nreq' = nreq + 1 /\ nreq >= 1) => ngrant >= nreq]_vars
    /\ []((pc = "check" /\ json_ = Basic) => (ngrant >= 1 /\ nreq = ngrant + 1))
    /\ [][(pc = "check" /\ json_ = Basic /\ pc' # pc)
             => /\ pc' = "idle"
                /\ raised(outcome') = "ValueError"
                /\ nreq' = nreq
                /\ ngrant' = ngrant]_vars

\* a call that ended with a ValueError after three requests and two
\* grants, its last response being {"authentication": "basic"}
C28_Witness ==
    /\ pc = "idle"
    /\ nreq = 3
    /\ ngrant = 2
    /\ json_ = Basic
    /\ raised(outcome) = "ValueError"
\* C29: at every moment, after construction and after every request and
\* reauthentication, the session of the client carries the ossapi
\* User-Agent header and the x-api-version header.
C29_SessionHeaders ==
    {"User-Agent", "x-api-version"} \subseteq headers(session)
\* what a formatted value is to be: "true" or "false" for a boolean, 1000
\* times the timestamp for a datetime, the value of an Enum member, and
\* the value itself otherwise
formatted(x) ==
    IF x.t = "bool" THEN StrV(IF x.v THEN "true" ELSE "false")
    ELSE IF x.t = "datetime" THEN IntV(1000 * x.v)
    ELSE IF x.t = "base" /\ x.v.cls \in EnumNames THEN StrV(x.v.value)
    ELSE x

\* C30: the parameters a request is sent with hold, for every plain
\* parameter and every field of the Cursor, the formatted value: "true"
\* for True and "false" for False, 1000 times the timestamp of a datetime,
\* the value of an Enum member, and any other value as it is.
C30_FormatValue ==
    [][\A country \in {None, StrV("US")}, cursor_ \in {None, CursorRef},
          filter_ \in {BaseObj("RankingFilter", "all")} :
          (sent = <<>> /\ Format(country, cursor_, filter_)) =>
             LET new == sent'[1]
             IN  /\ new["country"] = formatted(country)
                 /\ new["filter"] = formatted(filter_)
                 /\ cursor_ = CursorRef =>
                       \A c \in DOMAIN cursor :
                          new["cursor[" \o c \o "]"] = formatted(cursor[c])]_vars

====
